---- MODULE Spec2Model ----
(***************************************************************************)
(* Model of the chatbot backend (src/backend/server.js): the /chat         *)
(* request initiator, the ModelRiver webhook handler with its payload      *)
(* normalizer, callback resolver and callback dispatcher, and the two      *)
(* in-memory maps pendingRequests and conversations, and the retrieval     *)
(* route GET /conversations/:id; of the older variant of the server        *)
(* (src/unnamed/part_000); and of the chat component of the frontend       *)
(* (src/frontend/src/App.jsx).                                             *)
(*                                                                         *)
(* JavaScript values are tagged records.  undefined and null carry only    *)
(* the tag; strings, numbers and booleans carry their literal text in s;   *)
(* arrays carry a sequence in a; objects carry their properties, in        *)
(* insertion order, as a sequence of <<key, value>> pairs in o.  A thrown  *)
(* exception is the value Throw(msg), which every operator propagates.     *)
(* Timestamps (Date.now(), new Date()) are written by the code and never   *)
(* read back; the model leaves them out.                                   *)
(***************************************************************************)
EXTENDS Integers, Sequences, FiniteSets, TLC

Undef == [t |-> "undefined"]
Null == [t |-> "null"]
Str(s) == [t |-> "string", s |-> s]
Num(s) == [t |-> "number", s |-> s]
Bool(s) == [t |-> "boolean", s |-> s]
Arr(a) == [t |-> "array", a |-> a]
Obj(o) == [t |-> "object", o |-> o]
Throw(msg) == [t |-> "throw", s |-> msg]

IsThrow(v) == v.t = "throw"
IsNullish(v) == v.t \in {"undefined", "null"}
IsString(v) == v.t = "string"

\* typeof v === 'object'
TypeofObject(v) == v.t \in {"null", "array", "object"}

\* Array.isArray(v)
IsArray(v) == v.t = "array"

\* ToBoolean: undefined, null, "", 0 and false are falsy
Truthy(v) ==
    CASE v.t \in {"undefined", "null"} -> FALSE
      [] v.t = "string" -> v.s # ""
      [] v.t = "number" -> v.s # "0"
      [] v.t = "boolean" -> v.s = "true"
      [] OTHER -> TRUE

\* a || b
Or(a, b) == IF IsThrow(a) THEN a ELSE IF Truthy(a) THEN a ELSE b

\* the own property k of a non-nullish value (undefined when it has none)
RECURSIVE LookupPairs(_, _, _)
LookupPairs(o, k, i) ==
    IF i = 0 THEN Undef
    ELSE IF o[i][1] = k THEN o[i][2]
    ELSE LookupPairs(o, k, i - 1)

Lookup(v, k) ==
    CASE v.t = "object" -> LookupPairs(v.o, k, Len(v.o))
      [] v.t = "array" -> IF k = "0" /\ Len(v.a) > 0 THEN v.a[1] ELSE Undef
      [] v.t = "string" -> IF k = "0" /\ Len(v.s) > 0 THEN Str(SubSeq(v.s, 1, 1)) ELSE Undef
      [] OTHER -> Undef

\* whether the object v has an own property k
HasKey(v, k) == v.t = "object" /\ \E i \in 1..Len(v.o) : v.o[i][1] = k

\* v.k : a TypeError when v is undefined or null
Prop(v, k) ==
    IF IsThrow(v) THEN v
    ELSE IF IsNullish(v) THEN Throw("TypeError")
    ELSE Lookup(v, k)

\* v?.k
OptProp(v, k) ==
    IF IsThrow(v) THEN v
    ELSE IF IsNullish(v) THEN Undef
    ELSE Lookup(v, k)

\* the text JSON.stringify produces for a JSON value
RECURSIVE JsonText(_)
RECURSIVE JsonElems(_, _)
RECURSIVE JsonMembers(_, _)
JsonText(v) ==
    CASE v.t = "null" -> "null"
      [] v.t = "string" -> "\"" \o v.s \o "\""
      [] v.t \in {"number", "boolean"} -> v.s
      [] v.t = "array" -> "[" \o JsonElems(v.a, 1) \o "]"
      [] v.t = "object" -> "{" \o JsonMembers(v.o, 1) \o "}"
      [] OTHER -> "null"

JsonElems(a, i) ==
    IF i > Len(a) THEN ""
    ELSE JsonText(a[i]) \o (IF i < Len(a) THEN "," ELSE "") \o JsonElems(a, i + 1)

JsonMembers(o, i) ==
    IF i > Len(o) THEN ""
    ELSE "\"" \o o[i][1] \o "\":" \o JsonText(o[i][2])
         \o (IF i < Len(o) THEN "," ELSE "") \o JsonMembers(o, i + 1)

\* JSON.stringify(v): undefined for undefined, a string for every JSON value
JSONstringify(v) ==
    IF IsThrow(v) THEN v
    ELSE IF v.t = "undefined" THEN Undef
    ELSE Str(JsonText(v))

(***************************************************************************)
(* Payload normalizer (processModelRiverWebhook, lines 232-267)            *)
(***************************************************************************)

\* const responseData = ai_response?.data || data
ResponseData(body) == Or(OptProp(Prop(body, "ai_response"), "data"), Prop(body, "data"))

\* const responseDataToProcess = responseData || data
ResponseDataToProcess(body) == Or(ResponseData(body), Prop(body, "data"))

\* the test with arrays excluded
IsStructuredNonArray(v) ==
    /\ Truthy(v)
    /\ TypeofObject(v)
    /\ ~IsArray(v)
    /\ ~Truthy(Prop(v, "choices"))
    /\ ~Truthy(Prop(v, "response"))

\* the test of the if at line 259
IsStructured(v) ==
    /\ Truthy(v)
    /\ TypeofObject(v)
    /\ ~Truthy(Prop(v, "choices"))
    /\ ~Truthy(Prop(v, "response"))

\* v.choices[0].message.content, without the optional chaining
ChoicesContentStrict(v) ==
    Prop(Prop(Prop(Prop(v, "choices"), "0"), "message"), "content")

\* v?.choices?.[0]?.message?.content
ChoicesContent(v) ==
    OptProp(OptProp(OptProp(OptProp(v, "choices"), "0"), "message"), "content")

\* the else branch, lines 264-266
ExtractContent(v) ==
    Or(Or(ChoicesContent(v), ChoicesContent(OptProp(v, "response"))), JSONstringify(v))

\* every value goes through the extraction branch
NormalizeAsText(v) == ExtractContent(v)

\* lines 256-267: the value stored as record.response
NormalizeResponse(v) == IF IsStructured(v) THEN v ELSE ExtractContent(v)

\* lines 233 and 256-267 together: record.response as a function of the body
AiResponse(body) == NormalizeResponse(ResponseDataToProcess(body))

(***************************************************************************)
(* Bounds and inputs                                                       *)
(***************************************************************************)

\* number of /chat requests and of webhooks a behaviour receives
MaxChats == 2
MaxWebhooks == 2

\* number of GET /conversations/:id requests a behaviour receives
MaxGets == 2

\* the channel ids the upstream engine assigns
ChannelIds == {Str("c1"), Str("c2")}

\* { choices: [ { message: { role: 'assistant', content: x } } ] }
ChoicesOf(x) ==
    Obj(<< <<"choices",
             Arr(<< Obj(<< <<"message",
                             Obj(<< <<"role", Str("assistant")>>, <<"content", x>> >>)>> >>) >>)>> >>)

\* the /chat request bodies
ChatBodies ==
    { Obj(<< >>),
      Obj(<< <<"message", Str("")>> >>),
      Obj(<< <<"message", Str("hi")>> >>),
      Obj(<< <<"message", Str("yo")>>, <<"conversationId", Str("conv-1")>> >>) }

\* what the upstream async-submit call can do: resolve with a body, resolve
\* with no readable body, reject with an error response
UpstreamData(c) ==
    Obj(<< <<"channel_id", c>>, <<"ws_token", Str("t")>>, <<"websocket_url", Str("u")>>,
           <<"websocket_channel", Str("ch")>>, <<"project_id", Str("p")>> >>)

UpstreamOutcomes ==
    { [kind |-> "resolve", message |-> "", response |-> Undef, data |-> UpstreamData(c)] : c \in ChannelIds }
    \cup
    { [kind |-> "resolve", message |-> "", response |-> Undef, data |-> Undef],
      [kind |-> "reject", message |-> "Request failed with status code 401",
       response |-> Obj(<< <<"status", Num("401")>>,
                           <<"data", Obj(<< <<"message", Str("invalid key")>> >>)>> >>),
       data |-> Undef] }

\* the webhook requests: the parsed JSON body and the x-modelriver-callback-url
\* header.  Every shape arrives for c1; c2 stands for the other ids.
WebhookRequests ==
    { \* standard webhook, chat-completion shape, no callback address
      [body |-> Obj(<< <<"channel_id", c>>, <<"status", Str("success")>>,
                       <<"data", ChoicesOf(Str("hello back"))>> >>),
       header |-> Undef] : c \in ChannelIds }
    \cup
    { \* no data and no ai_response
      [body |-> Obj(<< <<"channel_id", Str("c1")>>, <<"status", Str("success")>> >>),
       header |-> Undef],
      \* a valid callback address at the top level of the body
      [body |-> Obj(<< <<"channel_id", Str("c1")>>, <<"status", Str("success")>>,
                       <<"data", ChoicesOf(Str("hello back"))>>,
                       <<"callback_url", Str("http://mr/callback/c1")>> >>),
       header |-> Undef],
      \* structured data, an invalid address in the body and a valid one in the header
      [body |-> Obj(<< <<"channel_id", Str("c1")>>, <<"status", Str("success")>>,
                       <<"data", Obj(<< <<"answer", Str("42")>> >>)>>,
                       <<"callback_url", Str("not-a-url")>> >>),
       header |-> Str("http://mr/callback/c1")] }

\* the statuses the callback endpoint can answer with
CallbackStatuses == {200, 404, 503}

(***************************************************************************)
(* State                                                                   *)
(***************************************************************************)

VARIABLES
    apiKey,            \* MODELRIVER_API_KEY
    pendingRequests,   \* Map channel_id -> { prompt, conversationId, messageId }
    conversations,     \* Map conversationId -> messages
    uuidCount,         \* number of uuidv4() calls made so far
    chats,             \* the /chat requests received, in order of arrival
    hooks,             \* the webhook requests received, in order of arrival, each with
                       \* the response it got and the number of responses sent
    asyncCalls,        \* the async-submit calls issued to the engine
    posts,             \* the callback POSTs issued
    gets,              \* the GET /conversations/:id requests received, with their responses
    messages,          \* App: the chat messages shown
    isLoading,         \* App: the loading flag
    isConnectingRef,   \* App: the connection guard
    processedChannels, \* App: processedChannelsRef.current
    response,          \* useModelRiver: the latest response, null when there is none
    connected,         \* useModelRiver: isConnected || isConnecting
    sends,             \* App: the sendMessage calls made, each with its position
    timers,            \* App: the setTimeout callbacks of line 363 not yet run
    updates            \* useModelRiver: the updates delivered, in order (a response, or
                       \* null for an error)

\* the state of the frontend component
front == <<messages, isLoading, isConnectingRef, processedChannels, response, connected,
           sends, timers, updates>>

vars == <<apiKey, pendingRequests, conversations, uuidCount, chats, hooks, asyncCalls, posts, gets,
          messages, isLoading, isConnectingRef, processedChannels, response, connected,
          sends, timers, updates>>

EmptyMap == [k \in {} |-> Undef]
MapHas(m, k) == k \in DOMAIN m
MapSet(m, k, v) == [x \in (DOMAIN m) \cup {k} |-> IF x = k THEN v ELSE m[x]]
MapDelete(m, k) == [x \in (DOMAIN m) \ {k} |-> m[x]]

\* the n-th value uuidv4() returns
Uuid(n) == Str("uuid-" \o ToString(n))

\* no response sent yet
NoRes == [status |-> 0, body |-> Undef]

\* the async-submit call has not settled, or was never made
NoReply == [kind |-> "none", message |-> "", response |-> Undef, data |-> Undef]

Init ==
    /\ apiKey \in {Undef, Str("mr_key")}
    /\ pendingRequests = EmptyMap
    /\ conversations = EmptyMap
    /\ uuidCount = 0
    /\ chats = << >>
    /\ hooks = << >>
    /\ asyncCalls = << >>
    /\ posts = << >>
    /\ gets = << >>
    /\ messages = << >>
    /\ isLoading = FALSE
    /\ isConnectingRef = FALSE
    /\ processedChannels = {}
    /\ response = Null
    /\ connected = FALSE
    /\ sends = << >>
    /\ timers = 0
    /\ updates = << >>

(***************************************************************************)
(* POST /chat (lines 78-167)                                               *)
(***************************************************************************)

\* the payload of the async-submit call, lines 100-117 (timestamp left out)
ChatPayload(body, convId, msgId) ==
    Obj(<< <<"workflow", Or(Prop(body, "workflow"), Str("mr_chatbot_workflow"))>>,
           <<"messages", Arr(<< Obj(<< <<"role", Str("user")>>,
                                       <<"content", Prop(body, "message")>> >>) >>)>>,
           <<"delivery_method", Str("websocket")>>,
           <<"webhook_url", Str("http://localhost:4000/webhook/modelriver")>>,
           <<"events", Or(Prop(body, "events"), Arr(<< Str("webhook_received") >>))>>,
           <<"metadata", Obj(<< <<"conversation_id", convId>>,
                                <<"message_id", msgId>>,
                                <<"original_prompt", Prop(body, "message")>> >>)>> >>)

\* the credential check placed before the message check
ChatPrecheckKeyFirst(message, key) ==
    IF ~Truthy(key) THEN "no_key"
    ELSE IF ~Truthy(message) THEN "no_message"
    ELSE "ok"

\* the credential check left out
ChatPrecheckNoKey(message, key) ==
    IF ~Truthy(message) THEN "no_message" ELSE "ok"

\* the two checks at lines 82 and 86, in the order the code makes them
ChatPrecheck(message, key) ==
    IF ~Truthy(message) THEN "no_message"
    ELSE IF ~Truthy(key) THEN "no_key"
    ELSE "ok"

\* a fresh conversation id whatever the client supplied
CustomConversationIdFresh(conversationId, fresh) == fresh

\* const customConversationId = conversationId || uuidv4()   (line 95)
CustomConversationId(conversationId, fresh) == Or(conversationId, fresh)

\* the first part of the handler, up to the await of axios.post (lines 80-132)
ChatReceive(body) ==
    /\ Len(chats) < MaxChats
    /\ LET message == Prop(body, "message")
           conversationId == Prop(body, "conversationId")
           precheck == ChatPrecheck(message, apiKey)
       IN  IF precheck = "no_message"
           THEN /\ chats' = Append(chats,
                      [body |-> body, pc |-> "done", convId |-> Undef, msgId |-> Undef,
                       reply |-> NoReply,
                       res |-> [status |-> 400,
                                body |-> Obj(<< <<"error", Str("Message is required")>> >>)]])
                /\ UNCHANGED <<uuidCount, asyncCalls>>
           ELSE IF precheck = "no_key"
           THEN /\ chats' = Append(chats,
                      [body |-> body, pc |-> "done", convId |-> Undef, msgId |-> Undef,
                       reply |-> NoReply,
                       res |-> [status |-> 500,
                                body |-> Obj(<< <<"error",
                                    Str("MODELRIVER_API_KEY not configured. Set it in environment variables.")>> >>)]])
                /\ UNCHANGED <<uuidCount, asyncCalls>>
           ELSE LET minted == IF Truthy(conversationId) THEN 0 ELSE 1
                    customConversationId ==
                        CustomConversationId(conversationId, Uuid(uuidCount + 1))
                    customMessageId == Uuid(uuidCount + minted + 1)
                IN  /\ uuidCount' = uuidCount + minted + 1
                    /\ asyncCalls' = Append(asyncCalls,
                           ChatPayload(body, customConversationId, customMessageId))
                    /\ chats' = Append(chats,
                           [body |-> body, pc |-> "awaiting", convId |-> customConversationId,
                            msgId |-> customMessageId, reply |-> NoReply, res |-> NoRes])
    /\ UNCHANGED <<apiKey, pendingRequests, conversations, hooks, posts, gets>>
    /\ UNCHANGED front

\* whether the awaited call resolved with a body the destructuring at line 134 can read
UpstreamReadable(outcome) == outcome.kind = "resolve" /\ ~IsNullish(outcome.data)

\* the entry is stored whatever the outcome of the call
ChatStoreAlways(store, outcome, entry) ==
    MapSet(store, OptProp(outcome.data, "channel_id"), entry)

\* an entry already stored for the id is kept
ChatStoreKeepFirst(store, outcome, entry) ==
    IF UpstreamReadable(outcome) /\ ~MapHas(store, Prop(outcome.data, "channel_id"))
    THEN MapSet(store, Prop(outcome.data, "channel_id"), entry)
    ELSE store

\* pendingRequests after the call has settled (lines 142-148; nothing on the catch path)
ChatStore(store, outcome, entry) ==
    IF UpstreamReadable(outcome)
    THEN MapSet(store, Prop(outcome.data, "channel_id"), entry)
    ELSE store

\* the response without the socket token
ChatSuccessBodyNoToken(data) ==
    Obj(<< <<"channel_id", Prop(data, "channel_id")>>,
           <<"websocket_url", Prop(data, "websocket_url")>>,
           <<"websocket_channel", Prop(data, "websocket_channel")>>,
           <<"project_id", Prop(data, "project_id")>> >>)

\* the five fields of the 200 response, read from the upstream reply (lines 134, 151-157)
ChatSuccessBody(data) ==
    Obj(<< <<"channel_id", Prop(data, "channel_id")>>,
           <<"ws_token", Prop(data, "ws_token")>>,
           <<"websocket_url", Prop(data, "websocket_url")>>,
           <<"websocket_channel", Prop(data, "websocket_channel")>>,
           <<"project_id", Prop(data, "project_id")>> >>)

\* a failure is answered with the error message alone
ChatResponseMessageOnly(outcome) ==
    IF UpstreamReadable(outcome)
    THEN [status |-> 200, body |-> ChatSuccessBody(outcome.data)]
    ELSE [status |-> 500, body |-> Obj(<< <<"error", Str(outcome.message)>> >>)]

\* the response of /chat once the call has settled (lines 150-157 and 159-166)
ChatResponse(outcome) ==
    IF UpstreamReadable(outcome)
    THEN [status |-> 200, body |-> ChatSuccessBody(outcome.data)]
    ELSE LET errMessage ==
                 IF outcome.kind = "resolve"
                 THEN Str("Cannot destructure property 'channel_id' of 'response.data' as it is undefined.")
                 ELSE Str(outcome.message)
             errData == OptProp(outcome.response, "data")
         IN  [status |-> 500,
              body |-> Obj(<< <<"error", Or(OptProp(errData, "message"), errMessage)>>,
                              <<"details", errData>> >>)]

\* the continuation of the handler after the await (lines 134-166)
ChatSettle(i, outcome) ==
    /\ i \in 1..Len(chats)
    /\ chats[i].pc = "awaiting"
    /\ pendingRequests' = ChatStore(pendingRequests, outcome,
           [prompt |-> Prop(chats[i].body, "message"),
            conversationId |-> chats[i].convId,
            messageId |-> chats[i].msgId])
    /\ chats' = [chats EXCEPT ![i].pc = "done", ![i].reply = outcome,
                              ![i].res = ChatResponse(outcome)]
    /\ UNCHANGED <<apiKey, conversations, uuidCount, hooks, asyncCalls, posts, gets>>
    /\ UNCHANGED front

(***************************************************************************)
(* POST /webhook and POST /webhook/modelriver (lines 176-589)              *)
(***************************************************************************)

\* the header consulted before the body
CallbackUrlHeaderFirst(req) ==
    Or(req.header,
       Or(Prop(req.body, "callback_url"), OptProp(Prop(req.body, "data"), "callback_url")))

\* the first candidate that is a string beginning with 'http', when there is one
CallbackUrlFirstValid(req) ==
    LET top == Prop(req.body, "callback_url")
        inData == OptProp(Prop(req.body, "data"), "callback_url")
        valid(u) == IsString(u) /\ Len(u.s) >= 4 /\ SubSeq(u.s, 1, 4) = "http"
    IN  IF valid(top) THEN top
        ELSE IF valid(inData) THEN inData
        ELSE IF valid(req.header) THEN req.header
        ELSE Or(top, Or(inData, req.header))

\* lines 228-230: callback_url || data?.callback_url || req.headers[...]
CallbackUrl(req) ==
    Or(Prop(req.body, "callback_url"),
       Or(OptProp(Prop(req.body, "data"), "callback_url"), req.header))

\* s.startsWith(p)
StartsWith(s, p) == Len(s) >= Len(p) /\ SubSeq(s, 1, Len(p)) = p

\* every string passes for an address
CallbackUrlIsString(u) == IsString(u)

\* the negation of the test at line 314
CallbackUrlValid(u) == IsString(u) /\ StartsWith(u.s, "http")

\* pendingRequests.get(channel_id) || {}   (line 244)
EmptyEntry == [prompt |-> Undef, conversationId |-> Undef, messageId |-> Undef]
PendingLookup(store, key) == IF MapHas(store, key) THEN store[key] ELSE EmptyEntry

\* a fresh identifier whatever the entry holds
MessageIdAlwaysFresh(entry, fresh) == fresh

\* const messageId = customMessageId || uuidv4()   (line 252)
MessageId(entry, fresh) == Or(entry.messageId, fresh)

\* the entry is left in the store
PendingConsumeKeep(store, key) == store

\* the whole store is cleared
PendingConsumeAll(store, key) == EmptyMap

\* pendingRequests.delete(channel_id)   (line 306)
PendingConsume(store, key) == MapDelete(store, key)

\* lines 270-278 (created_at left out)
Record(body, entry, messageId) ==
    [id |-> messageId,
     prompt |-> Or(entry.prompt, Str("Unknown prompt")),
     response |-> AiResponse(body),
     channel_id |-> Prop(body, "channel_id"),
     conversation_id |-> entry.conversationId,
     usage |-> Or(OptProp(Prop(body, "meta"), "usage"), OptProp(Prop(body, "data"), "usage"))]

\* the log is replaced by the new record instead of growing by it
ConversationsReplace(convs, conversationId, record) ==
    MapSet(convs, conversationId, << record >>)

\* lines 300-303 (createdAt left out)
ConversationsPush(convs, conversationId, record) ==
    IF MapHas(convs, conversationId)
    THEN [convs EXCEPT ![conversationId] = Append(@, record)]
    ELSE MapSet(convs, conversationId, << record >>)

\* lines 354-368
CallbackData(body) ==
    LET type == Prop(body, "type")
        ai_response == Prop(body, "ai_response")
        data == Prop(body, "data")
    IN  IF type = Str("task.ai_generated") /\ Truthy(OptProp(ai_response, "data"))
        THEN Prop(ai_response, "data")
        ELSE IF Truthy(data) THEN data
        ELSE Or(ResponseData(body), Obj(<< >>))

\* { ...o, k: v }
RECURSIVE ReplaceKey(_, _, _, _)
ReplaceKey(o, k, v, i) ==
    IF i > Len(o) THEN << >>
    ELSE << (IF o[i][1] = k THEN <<k, v>> ELSE o[i]) >> \o ReplaceKey(o, k, v, i + 1)

ObjAssign(obj, k, v) ==
    IF \E i \in 1..Len(obj.o) : obj.o[i][1] = k
    THEN Obj(ReplaceKey(obj.o, k, v, 1))
    ELSE Obj(Append(obj.o, <<k, v>>))

\* the identifiers are written first and the inbound fields over them
EnrichedDataKeepInbound(callbackData, messageId, conversationId) ==
    IF Truthy(callbackData) /\ TypeofObject(callbackData) /\ ~IsArray(callbackData)
    THEN LET keep(o, k, v) == IF HasKey(o, k) THEN o ELSE ObjAssign(o, k, v)
         IN  keep(keep(callbackData, "id", messageId), "conversation_id", conversationId)
    ELSE IF IsArray(callbackData)
    THEN Obj(<< <<"items", callbackData>>, <<"id", messageId>>,
                <<"conversation_id", conversationId>> >>)
    ELSE IF ~IsNullish(callbackData)
    THEN Obj(<< <<"content", callbackData>>, <<"id", messageId>>,
                <<"conversation_id", conversationId>> >>)
    ELSE Obj(<< <<"id", messageId>>, <<"conversation_id", conversationId>>,
                <<"message", Str("Response processed")>> >>)

\* lines 374-404
EnrichedData(callbackData, messageId, conversationId) ==
    IF Truthy(callbackData) /\ TypeofObject(callbackData) /\ ~IsArray(callbackData)
    THEN ObjAssign(ObjAssign(callbackData, "id", messageId), "conversation_id", conversationId)
    ELSE IF IsArray(callbackData)
    THEN Obj(<< <<"items", callbackData>>, <<"id", messageId>>,
                <<"conversation_id", conversationId>> >>)
    ELSE IF ~IsNullish(callbackData)
    THEN Obj(<< <<"content", callbackData>>, <<"id", messageId>>,
                <<"conversation_id", conversationId>> >>)
    ELSE Obj(<< <<"id", messageId>>, <<"conversation_id", conversationId>>,
                <<"message", Str("Response processed")>> >>)

\* lines 406-416 (processed_at left out)
CallbackPayload(body, messageId, conversationId) ==
    Obj(<< <<"data", Or(EnrichedData(CallbackData(body), messageId, conversationId), Obj(<< >>))>>,
           <<"task_id", messageId>>,
           <<"metadata",
             Obj(<< <<"conversation_id", conversationId>>,
                    <<"channel_id", Prop(body, "channel_id")>>,
                    <<"usage", Or(OptProp(Prop(body, "meta"), "usage"),
                                  Or(OptProp(Prop(body, "data"), "usage"),
                                     Or(OptProp(OptProp(Prop(body, "ai_response"), "meta"), "usage"),
                                        Obj(<< >>))))>> >>)>> >>)

\* the last index of the run of characters other than / and ? that starts at i
RECURSIVE SegmentEnd(_, _)
SegmentEnd(s, i) ==
    IF i < Len(s) /\ SubSeq(s, i + 1, i + 1) \notin {"/", "?"}
    THEN SegmentEnd(s, i + 1)
    ELSE i

\* the first group of the leftmost match of /\/callback\/([^\/\?]+)/ at or after
\* position i, null when there is no match (lines 319-320)
RECURSIVE UrlChannelIdFrom(_, _)
UrlChannelIdFrom(s, i) ==
    IF i + 10 > Len(s) THEN Null
    ELSE IF SubSeq(s, i, i + 9) = "/callback/" /\ SubSeq(s, i + 10, i + 10) \notin {"/", "?"}
    THEN Str(SubSeq(s, i + 10, SegmentEnd(s, i + 10)))
    ELSE UrlChannelIdFrom(s, i + 1)

UrlChannelId(u) == UrlChannelIdFrom(u.s, 1)

\* the test at line 322: urlChannelId && urlChannelId !== channel_id
ChannelMismatch(u, channel_id) ==
    Truthy(UrlChannelId(u)) /\ UrlChannelId(u) # channel_id

\* a mismatch makes the handler skip the dispatch
MismatchBlocks(step, mismatch) == IF mismatch /\ step = "pending" THEN "invalid" ELSE step

\* lines 322-327: a mismatch is logged with console.warn and the handler goes on
MismatchWarns(step, mismatch) == step

\* the negation of the test at line 419
PayloadDataValid(payload) ==
    LET d == Prop(payload, "data")
    IN  Truthy(d) /\ TypeofObject(d) /\ ~IsArray(d)

\* res.json({...}) at lines 575-581 (timestamp left out)
Acknowledgment(messageId, channel_id) ==
    [status |-> 200,
     body |-> Obj(<< <<"success", Bool("true")>>, <<"message", Str("Webhook processed")>>,
                     <<"record_id", messageId>>, <<"channel_id", channel_id>> >>)]

\* res.status(500).json({ error: error.message }) at line 587
ErrorResponse(err) == [status |-> 500, body |-> Obj(<< <<"error", Str(err.s)>> >>)]

\* what the handler does with the callback before its first suspension point:
\* none (no address, line 541), invalid (line 314), setup_error (the throw at
\* line 421, caught at line 468) or pending (axios.post issued and awaited)
CallbackStep(callbackUrl, payload) ==
    IF ~Truthy(callbackUrl) THEN "none"
    ELSE IF ~CallbackUrlValid(callbackUrl) THEN "invalid"
    ELSE IF ~PayloadDataValid(payload) THEN "setup_error"
    ELSE "pending"

\* processModelRiverWebhook from its entry to the await at line 451, or to the
\* acknowledgment when no callback POST is issued
WebhookReceive(req) ==
    /\ Len(hooks) < MaxWebhooks
    /\ LET body == req.body
           channel_id == Prop(body, "channel_id")
           entry == PendingLookup(pendingRequests, channel_id)
           minted == ~Truthy(entry.messageId)
           messageId == MessageId(entry, Uuid(uuidCount + 1))
           record == Record(body, entry, messageId)
           callbackUrl == CallbackUrl(req)
           payload == CallbackPayload(body, messageId, entry.conversationId)
           mismatch == CallbackUrlValid(callbackUrl) /\ ChannelMismatch(callbackUrl, channel_id)
           step == MismatchWarns(CallbackStep(callbackUrl, payload), mismatch)
           hook == [req |-> req, pc |-> "done", messageId |-> messageId,
                    callbackUrl |-> callbackUrl, warned |-> mismatch,
                    correlated |-> MapHas(pendingRequests, channel_id),
                    cb |-> "none", cbStatus |-> 0, res |-> NoRes, sent |-> 0]
       IN  IF IsThrow(channel_id)
           THEN \* the destructuring at line 222 threw: caught at line 585
                /\ hooks' = Append(hooks, [hook EXCEPT !.messageId = Undef,
                                                      !.correlated = FALSE,
                                                      !.res = ErrorResponse(channel_id),
                                                      !.sent = 1])
                /\ UNCHANGED <<pendingRequests, conversations, uuidCount, posts>>
           ELSE IF IsThrow(record.response)
           THEN \* an exception in lines 256-267: caught at line 585
                /\ uuidCount' = IF minted THEN uuidCount + 1 ELSE uuidCount
                /\ hooks' = Append(hooks, [hook EXCEPT !.res = ErrorResponse(record.response),
                                                      !.sent = 1])
                /\ UNCHANGED <<pendingRequests, conversations, posts>>
           ELSE /\ uuidCount' = IF minted THEN uuidCount + 1 ELSE uuidCount
                /\ conversations' = ConversationsPush(conversations, entry.conversationId, record)
                /\ pendingRequests' = PendingConsume(pendingRequests, channel_id)
                /\ IF step = "pending"
                   THEN /\ posts' = Append(posts, [hook |-> Len(hooks) + 1,
                                                   url |-> callbackUrl, payload |-> payload])
                        /\ hooks' = Append(hooks, [hook EXCEPT !.pc = "awaiting", !.cb = "pending"])
                   ELSE /\ posts' = posts
                        /\ hooks' = Append(hooks,
                               [hook EXCEPT !.cb = step,
                                            !.res = Acknowledgment(messageId, channel_id),
                                            !.sent = 1])
    /\ UNCHANGED <<apiKey, chats, asyncCalls, gets>>
    /\ UNCHANGED front

\* what the callback endpoint does with the POST: it answers with a status, or
\* no answer arrives (timeout after 30 s, connection failure)
CallbackOutcomes ==
    { [kind |-> "response", status |-> st] : st \in CallbackStatuses }
    \cup { [kind |-> "no_response", status |-> 0] }

\* validateStatus at line 446
ValidateStatus(status) == status < 500

\* whether the awaited promise rejects: axios rejects when no response arrives
\* and when validateStatus refuses the status
CallbackRejected(outcome) ==
    outcome.kind = "no_response" \/ ~ValidateStatus(outcome.status)

\* the catch block, lines 468-539: undefined when it runs to its end.  When the
\* error carries a response, line 502 reads callbackPayload, a const declared
\* inside the try block (line 407) and out of scope here: a ReferenceError.
CallbackCatch(outcome) ==
    IF outcome.kind = "response"
    THEN Throw("callbackPayload is not defined")
    ELSE Undef

\* the POST is issued again when it was rejected
PostsRetried(ps, i, outcome) ==
    IF CallbackRejected(outcome)
    THEN ps \o SelectSeq(ps, LAMBDA p : p.hook = i)
    ELSE ps

\* the callback POSTs issued once the awaited one has settled: neither the
\* success path (lines 453-467) nor the catch block (lines 468-539) issues another
PostsSettled(ps, i, outcome) == ps

\* a rejected callback ends the handler without a response
WebhookResponseSilent(outcome, messageId, channel_id) ==
    IF CallbackRejected(outcome) THEN NoRes ELSE Acknowledgment(messageId, channel_id)

\* the response the handler sends once the awaited POST has settled
WebhookResponse(outcome, messageId, channel_id) ==
    IF CallbackRejected(outcome) /\ IsThrow(CallbackCatch(outcome))
    THEN ErrorResponse(CallbackCatch(outcome))
    ELSE Acknowledgment(messageId, channel_id)

\* the inner catch answers 500 and the handler goes on to the acknowledgment
ResponsesSentBoth(outcome) ==
    IF CallbackRejected(outcome) /\ IsThrow(CallbackCatch(outcome)) THEN 2 ELSE 1

\* the number of responses sent once the awaited POST has settled: res.json at
\* line 575 when the handler gets there, res.status(500).json at line 587 when
\* an exception left the try block before it, and the wrapper's at lines
\* 189-191 and 214-216 when processModelRiverWebhook rejected and nothing was
\* sent, which is never: the inner catch block does not throw
ResponsesSent(outcome) ==
    LET threw == CallbackRejected(outcome) /\ IsThrow(CallbackCatch(outcome))
        acknowledged == IF threw THEN 0 ELSE 1
        innerCatch == IF threw THEN 1 ELSE 0
        rejected == FALSE
        headersSent == acknowledged + innerCatch > 0
        wrapperCatch == IF rejected /\ ~headersSent THEN 1 ELSE 0
    IN  acknowledged + innerCatch + wrapperCatch

\* how the settled callback is classified
CallbackClass(outcome) ==
    IF ~CallbackRejected(outcome) THEN "delivered"
    ELSE IF outcome.kind = "response" THEN "error_response"
    ELSE "no_response"

\* the continuation of processModelRiverWebhook after the await at line 451
WebhookSettle(i, outcome) ==
    /\ i \in 1..Len(hooks)
    /\ hooks[i].pc = "awaiting"
    /\ hooks' = [hooks EXCEPT ![i].pc = "done",
                              ![i].cb = CallbackClass(outcome),
                              ![i].cbStatus = outcome.status,
                              ![i].res = WebhookResponse(outcome, hooks[i].messageId,
                                                         Prop(hooks[i].req.body, "channel_id")),
                              ![i].sent = @ + ResponsesSent(outcome)]
    /\ posts' = PostsSettled(posts, i, outcome)
    /\ UNCHANGED <<apiKey, pendingRequests, conversations, uuidCount, chats, asyncCalls, gets>>
    /\ UNCHANGED front

(***************************************************************************)
(* GET /conversations/:id (lines 596-604)                                  *)
(***************************************************************************)

\* the ids clients ask for: req.params.id is always a string
GetIds == {Str("conv-1"), Str("does-not-exist"), Str("undefined")}

\* every id is answered 200, with an empty log when there is none
GetResponseAlwaysFound(convs, id) ==
    [status |-> 200, messages |-> IF MapHas(convs, id) THEN convs[id] ELSE << >>,
     body |-> Undef]

\* lines 597-603: 404 when conversations.get(id) is undefined, the log otherwise
\* (createdAt left out)
GetResponse(convs, id) ==
    IF MapHas(convs, id)
    THEN [status |-> 200, messages |-> convs[id], body |-> Undef]
    ELSE [status |-> 404, messages |-> << >>,
          body |-> Obj(<< <<"error", Str("Conversation not found")>> >>)]

\* the whole handler: a read of conversations and a response
GetConversation(id) ==
    /\ Len(gets) < MaxGets
    /\ gets' = Append(gets, [id |-> id, res |-> GetResponse(conversations, id)])
    /\ UNCHANGED <<apiKey, pendingRequests, conversations, uuidCount, chats, hooks,
                   asyncCalls, posts>>
    /\ UNCHANGED front

(***************************************************************************)
(* Specification                                                           *)
(***************************************************************************)

Next ==
    \/ \E body \in ChatBodies : ChatReceive(body)
    \/ \E i \in 1..MaxChats, outcome \in UpstreamOutcomes : ChatSettle(i, outcome)
    \/ \E req \in WebhookRequests : WebhookReceive(req)
    \/ \E i \in 1..MaxWebhooks, outcome \in CallbackOutcomes : WebhookSettle(i, outcome)

Spec == Init /\ [][Next]_vars

\* Next and Spec leave the retrieval route out; StoreSpec has it.

\* the awaited callback POST settles: axios resolves or rejects it, at the latest
\* when its 30 s timeout expires (line 445)
FairSpec ==
    Spec /\ \A i \in 1..MaxWebhooks :
                WF_vars(\E outcome \in CallbackOutcomes : WebhookSettle(i, outcome))

(***************************************************************************)
(* The normalizer over a wide range of inbound shapes: the same handlers,  *)
(* fed with webhook bodies that carry every kind of JSON value as data.    *)
(***************************************************************************)

\* JSON values a webhook can carry as data
DataValues ==
    { Null, Str(""), Str("plain text"), Num("0"), Num("7"), Bool("false"), Bool("true"),
      Arr(<< >>), Arr(<< Str("a"), Num("1") >>),
      Obj(<< >>), Obj(<< <<"answer", Str("42")>>, <<"tags", Arr(<< Str("x") >>)>> >>),
      ChoicesOf(Str("X")), ChoicesOf(Str("")), ChoicesOf(Num("7")),
      ChoicesOf(Obj(<< <<"part", Str("p")>> >>)),
      Obj(<< <<"choices", Arr(<< >>)>> >>),
      Obj(<< <<"choices", Arr(<< Obj(<< >>) >>)>> >>),
      Obj(<< <<"choices", Arr(<< Null >>)>> >>),
      Obj(<< <<"choices", Arr(<< Obj(<< <<"message", Null>> >>) >>)>> >>),
      Obj(<< <<"choices", Str("abc")>> >>),
      Obj(<< <<"choices", Num("5")>> >>),
      Obj(<< <<"choices", Null>>, <<"text", Str("t")>> >>),
      Obj(<< <<"response", ChoicesOf(Str("Y"))>> >>),
      Obj(<< <<"response", Str("done")>> >>),
      Obj(<< <<"response", Null>>, <<"text", Str("t")>> >>),
      Obj(<< <<"choices", Arr(<< >>)>>, <<"response", ChoicesOf(Str("Z"))>> >>) }

NormBodies ==
    { Obj(<< <<"channel_id", Str("c1")>>, <<"data", d>> >>) : d \in DataValues }
    \cup
    { Obj(<< >>), Arr(<< >>),
      Obj(<< <<"channel_id", Str("c1")>> >>),
      Obj(<< <<"channel_id", Str("c1")>>, <<"type", Str("task.ai_generated")>>,
             <<"ai_response", Obj(<< <<"data", ChoicesOf(Str("E"))>> >>)>> >>),
      Obj(<< <<"channel_id", Str("c1")>>,
             <<"ai_response", Obj(<< <<"data", Obj(<< <<"answer", Str("42")>> >>)>> >>)>>,
             <<"data", ChoicesOf(Str("X"))>> >>),
      Obj(<< <<"channel_id", Str("c1")>>,
             <<"ai_response", Obj(<< <<"data", Null>> >>)>>,
             <<"data", Str("plain text")>> >>),
      Obj(<< <<"channel_id", Str("c1")>>, <<"ai_response", Null>> >>) }

NormRequests == { [body |-> b, header |-> Undef] : b \in NormBodies }

NormChatBodies == { Obj(<< <<"message", Str("hi")>> >>) }

NormUpstreamOutcomes == { o \in UpstreamOutcomes : o.data = UpstreamData(Str("c1")) }

NormNext ==
    \/ \E body \in NormChatBodies : ChatReceive(body)
    \/ \E i \in 1..MaxChats, outcome \in NormUpstreamOutcomes : ChatSettle(i, outcome)
    \/ \E req \in NormRequests : WebhookReceive(req)

NormSpec == Init /\ [][NormNext]_vars

(***************************************************************************)
(* The callback resolver and dispatcher over a wide range of addresses and *)
(* of inbound data shapes: the same handlers, fed with webhooks that carry *)
(* an address at each of the three places and every kind of JSON value as  *)
(* data.  No /chat request precedes them: every webhook is uncorrelated.   *)
(***************************************************************************)

\* the addresses a webhook carries at the top level, inside data and in the header
TopUrl == Str("http://mr/callback/top")
DataUrl == Str("http://mr/callback/data")
HeaderUrl == Str("http://mr/callback/header")

\* { choices: [...], callback_url: u }
ChoicesWithUrl(x, u) == ObjAssign(ChoicesOf(x), "callback_url", u)

\* webhooks that differ in where the address is and in what it is
CbAddressRequests ==
    { \* no address anywhere
      [body |-> Obj(<< <<"channel_id", Str("c1")>>, <<"data", ChoicesOf(Str("hello back"))>> >>),
       header |-> Undef],
      \* one address, at each of the three places
      [body |-> Obj(<< <<"channel_id", Str("c1")>>, <<"data", ChoicesOf(Str("hello back"))>>,
                       <<"callback_url", TopUrl>> >>),
       header |-> Undef],
      [body |-> Obj(<< <<"channel_id", Str("c1")>>,
                       <<"data", ChoicesWithUrl(Str("hello back"), DataUrl)>> >>),
       header |-> Undef],
      [body |-> Obj(<< <<"channel_id", Str("c1")>>, <<"data", ChoicesOf(Str("hello back"))>> >>),
       header |-> HeaderUrl],
      \* an address at all three places, and at the last two
      [body |-> Obj(<< <<"channel_id", Str("c1")>>,
                       <<"data", ChoicesWithUrl(Str("hello back"), DataUrl)>>,
                       <<"callback_url", TopUrl>> >>),
       header |-> HeaderUrl],
      [body |-> Obj(<< <<"channel_id", Str("c1")>>,
                       <<"data", ChoicesWithUrl(Str("hello back"), DataUrl)>> >>),
       header |-> HeaderUrl],
      \* invalid addresses in the body next to a valid one in the header
      [body |-> Obj(<< <<"channel_id", Str("c1")>>, <<"data", ChoicesOf(Str("hello back"))>>,
                       <<"callback_url", Str("not-a-url")>> >>),
       header |-> HeaderUrl],
      [body |-> Obj(<< <<"channel_id", Str("c1")>>, <<"data", ChoicesOf(Str("hello back"))>>,
                       <<"callback_url", Num("8080")>> >>),
       header |-> HeaderUrl],
      [body |-> Obj(<< <<"channel_id", Str("c1")>>,
                       <<"data", ChoicesWithUrl(Str("hello back"), Str("ftp://mr/callback"))>> >>),
       header |-> HeaderUrl],
      \* an address whose /callback/<id> segment names the webhook's channel_id
      [body |-> Obj(<< <<"channel_id", Str("c1")>>, <<"data", ChoicesOf(Str("hello back"))>> >>),
       header |-> Str("http://mr/callback/c1")],
      \* an invalid address in the header only
      [body |-> Obj(<< <<"channel_id", Str("c1")>>, <<"data", ChoicesOf(Str("hello back"))>> >>),
       header |-> Str("not-a-url")],
      \* empty and null fields in the body, an address in the header
      [body |-> Obj(<< <<"channel_id", Str("c1")>>,
                       <<"data", ChoicesWithUrl(Str("hello back"), Null)>>,
                       <<"callback_url", Str("")>> >>),
       header |-> HeaderUrl] }

\* the values a webhook carries as data
CbDataValues ==
    { Null, Str(""), Str("plain text"), Num("0"), Num("7"), Bool("false"), Bool("true"),
      Arr(<< >>), Arr(<< Str("a"), Num("1") >>),
      Obj(<< >>), Obj(<< <<"answer", Str("42")>> >>),
      Obj(<< <<"id", Str("theirs")>>, <<"answer", Str("42")>> >>),
      ChoicesOf(Str("hello back")) }

\* webhooks that differ in the shape of their data, all with a valid address
CbDataRequests ==
    { [body |-> Obj(<< <<"channel_id", Str("c1")>>, <<"data", d>> >>), header |-> HeaderUrl] :
        d \in CbDataValues }
    \cup
    { \* no data at all
      [body |-> Obj(<< <<"channel_id", Str("c1")>> >>), header |-> HeaderUrl],
      \* event-driven webhooks: the data is in ai_response
      [body |-> Obj(<< <<"channel_id", Str("c1")>>, <<"type", Str("task.ai_generated")>>,
                       <<"ai_response", Obj(<< <<"data", Arr(<< Str("a") >>)>> >>)>> >>),
       header |-> HeaderUrl],
      [body |-> Obj(<< <<"channel_id", Str("c1")>>,
                       <<"ai_response", Obj(<< <<"data", Str("from the event")>> >>)>> >>),
       header |-> HeaderUrl] }

CbRequests == CbAddressRequests \cup CbDataRequests

CbNext ==
    \/ \E req \in CbRequests : WebhookReceive(req)
    \/ \E i \in 1..MaxWebhooks, outcome \in CallbackOutcomes : WebhookSettle(i, outcome)

CbSpec == Init /\ [][CbNext]_vars

(***************************************************************************)
(* /chat alone over a wide range of upstream outcomes.                     *)
(***************************************************************************)

\* an upstream error response: what axios puts in error.message and error.response
UpstreamError(status, data) ==
    [kind |-> "reject", message |-> "Request failed with status code " \o status,
     response |-> Obj(<< <<"status", Num(status)>>, <<"data", data>> >>),
     data |-> Undef]

ChatUpstreamOutcomes ==
    UpstreamOutcomes
    \cup
    { \* error responses whose body has no message: an object, a string
      UpstreamError("503", Obj(<< <<"code", Str("overloaded")>> >>)),
      UpstreamError("502", Str("Bad Gateway")),
      \* no response at all: the connection failed
      [kind |-> "reject", message |-> "connect ECONNREFUSED", response |-> Undef,
       data |-> Undef] }

ChatNext ==
    \/ \E body \in ChatBodies : ChatReceive(body)
    \/ \E i \in 1..MaxChats, outcome \in ChatUpstreamOutcomes : ChatSettle(i, outcome)

ChatSpec == Init /\ [][ChatNext]_vars

(***************************************************************************)
(* The two stores under all three kinds of requests: /chat, the webhook    *)
(* and the retrieval route, interleaved, with few shapes of each.          *)
(***************************************************************************)

StoreChatBodies ==
    { Obj(<< <<"message", Str("hi")>> >>),
      Obj(<< <<"message", Str("yo")>>, <<"conversationId", Str("conv-1")>> >>) }

StoreUpstreamOutcomes ==
    { o \in UpstreamOutcomes : o.kind = "reject" \/ o.data = UpstreamData(Str("c1")) }

StoreRequests ==
    { r \in WebhookRequests :
        /\ HasKey(r.body, "data")
        /\ r.header = Undef
        /\ Prop(r.body, "callback_url") # Str("not-a-url") }

StoreNext ==
    \/ \E body \in StoreChatBodies : ChatReceive(body)
    \/ \E i \in 1..MaxChats, outcome \in StoreUpstreamOutcomes : ChatSettle(i, outcome)
    \/ \E req \in StoreRequests : WebhookReceive(req)
    \/ \E i \in 1..MaxWebhooks, outcome \in CallbackOutcomes : WebhookSettle(i, outcome)
    \/ \E id \in GetIds : GetConversation(id)

StoreSpec == Init /\ [][StoreNext]_vars

(***************************************************************************)
(***************************************************************************)
(* The callback payload next to the record: /chat and the webhook          *)
(* interleaved, so that webhooks are correlated and uncorrelated, fed with *)
(* bodies that carry identifiers of their own and with bodies that carry   *)
(* both data and ai_response.data.  Every webhook has a valid address.     *)
(***************************************************************************)

\* the value a webhook carries as ai_response.data next to its data
EventData == Obj(<< <<"answer", Str("from the event")>> >>)

\* the body of a webhook of the given type that carries both; Undef: no type
BothBody(type) ==
    LET base == << <<"channel_id", Str("c1")>>,
                   <<"ai_response", Obj(<< <<"data", EventData>> >>)>>,
                   <<"data", ChoicesOf(Str("from the data"))>> >>
    IN  IF type = Undef THEN Obj(base) ELSE Obj(base \o << <<"type", type>> >>)

\* the values of type
EventTypes == {Undef, Str("task.ai_generated"), Str("task.completed")}

PayloadRequests ==
    { [body |-> Obj(<< <<"channel_id", Str("c1")>>, <<"data", d>> >>), header |-> HeaderUrl] :
        d \in { Obj(<< <<"id", Str("theirs")>>, <<"conversation_id", Str("theirs")>>,
                       <<"answer", Str("42")>> >>),
                Arr(<< Str("a"), Num("1") >>),
                Str("plain text") } }
    \cup
    { [body |-> Obj(<< <<"channel_id", Str("c1")>> >>), header |-> HeaderUrl] }
    \cup
    { [body |-> BothBody(type), header |-> HeaderUrl] : type \in EventTypes }

\* one /chat request of conversation conv-1
PayloadChatBodies == { b \in StoreChatBodies : HasKey(b, "conversationId") }

PayloadNext ==
    \/ \E body \in PayloadChatBodies : ChatReceive(body)
    \/ \E i \in 1..MaxChats, outcome \in StoreUpstreamOutcomes : ChatSettle(i, outcome)
    \/ \E req \in PayloadRequests : WebhookReceive(req)
    \/ \E i \in 1..MaxWebhooks, outcome \in CallbackOutcomes : WebhookSettle(i, outcome)

PayloadSpec == Init /\ [][PayloadNext]_vars

(***************************************************************************)
(* The variant server (src/unnamed/part_000): the same two stores, a /chat *)
(* handler that mints no message id and a webhook handler that takes the   *)
(* callback address from the header alone and always mints the record id.  *)
(* Its retrieval and health routes are left out.                           *)
(***************************************************************************)

\* the payload of the async-submit call, lines 93-107 (timestamp left out)
VariantChatPayload(body, convId) ==
    Obj(<< <<"workflow", Or(Prop(body, "workflow"), Str("mr_chatbot_workflow"))>>,
           <<"messages", Arr(<< Obj(<< <<"role", Str("user")>>,
                                       <<"content", Prop(body, "message")>> >>) >>)>>,
           <<"delivery_method", Str("websocket")>>,
           <<"webhook_url", Str("http://localhost:4000/webhook/modelriver")>>,
           <<"metadata", Obj(<< <<"conversation_id", convId>>,
                                <<"original_prompt", Prop(body, "message")>> >>)>> >>)

\* the first part of the variant's /chat handler, up to the await (lines 77-122)
VariantChatReceive(body) ==
    /\ Len(chats) < MaxChats
    /\ LET message == Prop(body, "message")
           conversationId == Prop(body, "conversationId")
           precheck == IF ~Truthy(message) THEN "no_message"
                       ELSE IF ~Truthy(apiKey) THEN "no_key"
                       ELSE "ok"
       IN  IF precheck = "no_message"
           THEN /\ chats' = Append(chats,
                      [body |-> body, pc |-> "done", convId |-> Undef, msgId |-> Undef,
                       reply |-> NoReply,
                       res |-> [status |-> 400,
                                body |-> Obj(<< <<"error", Str("Message is required")>> >>)]])
                /\ UNCHANGED <<uuidCount, asyncCalls>>
           ELSE IF precheck = "no_key"
           THEN /\ chats' = Append(chats,
                      [body |-> body, pc |-> "done", convId |-> Undef, msgId |-> Undef,
                       reply |-> NoReply,
                       res |-> [status |-> 500,
                                body |-> Obj(<< <<"error",
                                    Str("MODELRIVER_API_KEY not configured. Set it in environment variables.")>> >>)]])
                /\ UNCHANGED <<uuidCount, asyncCalls>>
           ELSE LET minted == IF Truthy(conversationId) THEN 0 ELSE 1
                    convId == Or(conversationId, Uuid(uuidCount + 1))
                IN  /\ uuidCount' = uuidCount + minted
                    /\ asyncCalls' = Append(asyncCalls, VariantChatPayload(body, convId))
                    /\ chats' = Append(chats,
                           [body |-> body, pc |-> "awaiting", convId |-> convId,
                            msgId |-> Undef, reply |-> NoReply, res |-> NoRes])
    /\ UNCHANGED <<apiKey, pendingRequests, conversations, hooks, posts, gets>>
    /\ UNCHANGED front

\* the entry the variant stores, lines 133-137 (timestamp left out)
VariantEntry(body, channel_id) ==
    [prompt |-> Prop(body, "message"),
     conversationId |-> Or(Prop(body, "conversationId"), channel_id)]

\* the response of the variant's /chat once the call has settled (lines 124,
\* 140-146 and 148-155)
VariantChatResponse(outcome) ==
    IF outcome.kind = "resolve" /\ ~IsNullish(outcome.data)
    THEN [status |-> 200,
          body |-> Obj(<< <<"channel_id", Prop(outcome.data, "channel_id")>>,
                          <<"ws_token", Prop(outcome.data, "ws_token")>>,
                          <<"websocket_url", Prop(outcome.data, "websocket_url")>>,
                          <<"websocket_channel", Prop(outcome.data, "websocket_channel")>>,
                          <<"project_id", Prop(outcome.data, "project_id")>> >>)]
    ELSE LET errMessage ==
                 IF outcome.kind = "resolve"
                 THEN Str("Cannot destructure property 'channel_id' of 'response.data' as it is undefined.")
                 ELSE Str(outcome.message)
             errData == OptProp(outcome.response, "data")
         IN  [status |-> 500,
              body |-> Obj(<< <<"error", Or(OptProp(errData, "message"), errMessage)>>,
                              <<"details", errData>> >>)]

\* the continuation of the variant's /chat handler after the await (lines 124-155)
VariantChatSettle(i, outcome) ==
    /\ i \in 1..Len(chats)
    /\ chats[i].pc = "awaiting"
    /\ pendingRequests' =
          IF outcome.kind = "resolve" /\ ~IsNullish(outcome.data)
          THEN MapSet(pendingRequests, Prop(outcome.data, "channel_id"),
                      VariantEntry(chats[i].body, Prop(outcome.data, "channel_id")))
          ELSE pendingRequests
    /\ chats' = [chats EXCEPT ![i].pc = "done", ![i].reply = outcome,
                              ![i].res = VariantChatResponse(outcome)]
    /\ UNCHANGED <<apiKey, conversations, uuidCount, hooks, asyncCalls, posts, gets>>
    /\ UNCHANGED front

\* pendingRequests.get(channel_id) || {}   (line 184)
VariantEmptyEntry == [prompt |-> Undef, conversationId |-> Undef]
VariantPendingLookup(store, key) == IF MapHas(store, key) THEN store[key] ELSE VariantEmptyEntry

\* lines 195-197
VariantAiResponse(data) ==
    Or(OptProp(OptProp(OptProp(OptProp(data, "choices"), "0"), "message"), "content"),
       Or(OptProp(OptProp(OptProp(OptProp(OptProp(data, "response"), "choices"), "0"),
                          "message"), "content"),
          JSONstringify(data)))

\* lines 200-208 (created_at left out)
VariantRecord(body, entry, messageId) ==
    [id |-> messageId,
     prompt |-> Or(entry.prompt, Str("Unknown prompt")),
     response |-> VariantAiResponse(Prop(body, "data")),
     channel_id |-> Prop(body, "channel_id"),
     conversation_id |-> entry.conversationId,
     usage |-> Or(OptProp(Prop(body, "meta"), "usage"), OptProp(Prop(body, "data"), "usage"))]

\* v?.substring(0, 50): a TypeError when v is neither nullish nor a string
SubstringThrows(v) == ~IsNullish(v) /\ ~IsString(v)

\* the console.log at lines 210-214: the exception it raises, Undef when none
VariantLogRecord(record) ==
    IF SubstringThrows(record.prompt)
    THEN Throw("record.prompt?.substring is not a function")
    ELSE IF SubstringThrows(record.response)
    THEN Throw("record.response?.substring is not a function")
    ELSE Undef

\* the entry is removed whether or not the handler got as far as line 223
VariantPendingConsumeAlways(store, key, threw) == MapDelete(store, key)

\* pendingRequests.delete(channel_id) at line 223, reached when nothing threw before it
VariantPendingConsume(store, key, threw) == IF threw THEN store ELSE MapDelete(store, key)

\* lines 217-220, reached when nothing threw before them (createdAt left out)
VariantConversationsPush(convs, conversationId, record, threw) ==
    IF threw THEN convs
    ELSE IF MapHas(convs, conversationId)
    THEN [convs EXCEPT ![conversationId] = Append(@, record)]
    ELSE MapSet(convs, conversationId, << record >>)

\* res.json({...}) at lines 247-251
VariantAcknowledgment(messageId) ==
    [status |-> 200,
     body |-> Obj(<< <<"success", Bool("true")>>, <<"message", Str("Webhook processed")>>,
                     <<"record_id", messageId>> >>)]

\* the variant's webhook handler from its entry to the await at line 233, or
\* to its response when no callback POST is issued (lines 174-257)
VariantWebhookReceive(req) ==
    /\ Len(hooks) < MaxWebhooks
    /\ LET body == req.body
           channel_id == Prop(body, "channel_id")
           callbackUrl == req.header
           entry == VariantPendingLookup(pendingRequests, channel_id)
           messageId == Uuid(uuidCount + 1)
           record == VariantRecord(body, entry, messageId)
           logged == VariantLogRecord(record)
           threw == IsThrow(logged)
           hook == [req |-> req, pc |-> "done", messageId |-> messageId,
                    callbackUrl |-> callbackUrl, warned |-> FALSE,
                    correlated |-> MapHas(pendingRequests, channel_id),
                    cb |-> "none", cbStatus |-> 0, res |-> NoRes, sent |-> 0]
       IN  /\ uuidCount' = uuidCount + 1
           /\ conversations' =
                 VariantConversationsPush(conversations, entry.conversationId, record, threw)
           /\ pendingRequests' = VariantPendingConsume(pendingRequests, channel_id, threw)
           /\ IF threw
              THEN \* caught at line 253
                   /\ hooks' = Append(hooks, [hook EXCEPT !.res = ErrorResponse(logged),
                                                         !.sent = 1])
                   /\ posts' = posts
              ELSE IF Truthy(callbackUrl)
              THEN /\ posts' = Append(posts, [hook |-> Len(hooks) + 1, url |-> callbackUrl,
                                              payload |-> record])
                   /\ hooks' = Append(hooks, [hook EXCEPT !.pc = "awaiting", !.cb = "pending"])
              ELSE /\ posts' = posts
                   /\ hooks' = Append(hooks, [hook EXCEPT !.res = VariantAcknowledgment(messageId),
                                                         !.sent = 1])
    /\ UNCHANGED <<apiKey, chats, asyncCalls, gets>>
    /\ UNCHANGED front

\* whether the awaited POST rejects: no validateStatus is given (lines 233-237),
\* so axios rejects every status outside 200-299, and when no response arrives
VariantCallbackRejected(outcome) ==
    outcome.kind = "no_response" \/ outcome.status < 200 \/ outcome.status >= 300

\* the continuation of the variant's webhook handler after the await: the
\* catch block at lines 239-241 logs the failure, and the acknowledgment follows
VariantWebhookSettle(i, outcome) ==
    /\ i \in 1..Len(hooks)
    /\ hooks[i].pc = "awaiting"
    /\ hooks' = [hooks EXCEPT ![i].pc = "done",
                              ![i].cb = IF VariantCallbackRejected(outcome)
                                        THEN "failed" ELSE "delivered",
                              ![i].cbStatus = outcome.status,
                              ![i].res = VariantAcknowledgment(hooks[i].messageId),
                              ![i].sent = @ + 1]
    /\ UNCHANGED <<apiKey, pendingRequests, conversations, uuidCount, chats, asyncCalls,
                   posts, gets>>
    /\ UNCHANGED front

\* /chat bodies: a text message, a message that is a number, a named conversation
VariantChatBodies ==
    { Obj(<< <<"message", Str("hi")>> >>),
      Obj(<< <<"message", Num("5")>> >>),
      Obj(<< <<"message", Str("yo")>>, <<"conversationId", Str("conv-1")>> >>) }

\* the body of a webhook for c1 with the given data; Undef: no data
VariantBody(d) ==
    IF d = Undef THEN Obj(<< <<"channel_id", Str("c1")>> >>)
    ELSE Obj(<< <<"channel_id", Str("c1")>>, <<"data", d>> >>)

\* webhooks with a text answer, an answer that is a number, a structured
\* answer and no data at all, with and without an address in the header
VariantRequests ==
    { [body |-> VariantBody(ChoicesOf(Str("hello back"))), header |-> Undef],
      [body |-> VariantBody(ChoicesOf(Str("hello back"))), header |-> HeaderUrl],
      [body |-> VariantBody(ChoicesOf(Num("7"))), header |-> HeaderUrl],
      [body |-> VariantBody(Obj(<< <<"answer", Str("42")>> >>)), header |-> Undef],
      [body |-> VariantBody(Undef), header |-> Undef] }

VariantNext ==
    \/ \E body \in VariantChatBodies : VariantChatReceive(body)
    \/ \E i \in 1..MaxChats, outcome \in StoreUpstreamOutcomes : VariantChatSettle(i, outcome)
    \/ \E req \in VariantRequests : VariantWebhookReceive(req)
    \/ \E i \in 1..MaxWebhooks, outcome \in CallbackOutcomes : VariantWebhookSettle(i, outcome)

VariantSpec == Init /\ [][VariantNext]_vars

(***************************************************************************)
(* The chat component of the frontend (src/frontend/src/App.jsx, lines     *)
(* 37-372): sendMessage, the effect that handles the hook's response and   *)
(* the effect that handles the hook's error.  The text of a message, the   *)
(* error banner, the input field and the dev-mode switch are left out: the *)
(* component's logic does not read them back.  The server state is left    *)
(* as it is: the backend is what answers the fetch.                        *)
(***************************************************************************)

\* the number of sendMessage calls and of hook updates considered
MaxSends == 2
MaxUpdates == 3

\* the server state
back == <<apiKey, pendingRequests, conversations, uuidCount, chats, hooks, asyncCalls, posts, gets>>

\* v.reply || v.summary || v.sentiment
HasFields(v) ==
    Truthy(Or(Prop(v, "reply"), Or(Prop(v, "summary"), Prop(v, "sentiment"))))

\* const status = meta.status || response.status || 'pending'   (lines 85-86)
StatusOf(r) ==
    LET meta == Or(Prop(r, "meta"), Obj(<< >>))
    IN  Or(Prop(meta, "status"), Or(Prop(r, "status"), Str("pending")))

\* lines 103-104
HasAiResponseData(r) ==
    /\ Truthy(OptProp(Prop(r, "ai_response"), "data"))
    /\ HasFields(Prop(Prop(r, "ai_response"), "data"))

\* the place the response's data is taken from, lines 116-155
ResponseDataOf(r) ==
    LET aiData == OptProp(Prop(r, "ai_response"), "data")
        metaAiData == OptProp(OptProp(Prop(r, "meta"), "ai_response"), "data")
        metaData == OptProp(Prop(r, "meta"), "data")
        message == Prop(r, "message")
    IN  IF Truthy(aiData) /\ HasFields(aiData) THEN aiData
        ELSE IF Truthy(metaAiData) /\ HasFields(metaAiData) THEN metaAiData
        ELSE IF Truthy(metaData) /\ HasFields(metaData) THEN metaData
        ELSE IF HasFields(r) THEN r
        ELSE IF Truthy(Or(OptProp(Prop(r, "data"), "reply"),
                          Or(OptProp(Prop(r, "data"), "summary"),
                             OptProp(Prop(r, "data"), "sentiment")))) THEN Prop(r, "data")
        ELSE IF Truthy(message) /\ TypeofObject(message) /\ HasFields(message) THEN message
        ELSE Prop(r, "data")

\* Object.keys(v).length for a value that is neither undefined nor null
KeysCount(v) ==
    CASE v.t = "object" -> Len(v.o)
      [] v.t = "array" -> Len(v.a)
      [] v.t = "string" -> Len(v.s)
      [] OTHER -> 0

\* lines 160-161
HasValidData(responseData) ==
    /\ Truthy(responseData)
    /\ KeysCount(responseData) > 0
    /\ (HasFields(responseData) \/ Truthy(Prop(responseData, "choices")))

\* the response passes the tests at lines 106 and 163: it has something to show
Displayable(r) ==
    /\ (StatusOf(r) \in {Str("success"), Str("completed")} \/ HasAiResponseData(r))
    /\ HasValidData(ResponseDataOf(r))

\* no channel counts as processed
IsDuplicateNever(channelId, processed) == FALSE

\* the test at line 170
IsDuplicate(channelId, processed) == Truthy(channelId) /\ channelId \in processed

\* lines 176-179
MarkProcessed(channelId, processed) ==
    IF Truthy(channelId) THEN processed \cup {channelId} ELSE processed

\* the messages the component adds: the user's (lines 289-294), the answer
\* (lines 198-211) and the error (lines 227-233 and 251-257); channelId is
\* the channel_id of the response that brought the message
UserMessage == [role |-> "user", isError |-> FALSE, channelId |-> Undef]
AssistantMessage(channelId) == [role |-> "assistant", isError |-> FALSE, channelId |-> channelId]
ErrorMessage(channelId) == [role |-> "assistant", isError |-> TRUE, channelId |-> channelId]

\* the responses the hook delivers
FrontResponses ==
    { Obj(<< <<"status", Str("success")>>, <<"channel_id", Str("c1")>>,
             <<"data", ChoicesOf(Str("hello back"))>> >>),
      Obj(<< <<"channel_id", Str("c1")>>,
             <<"meta", Obj(<< <<"status", Str("completed")>> >>)>>,
             <<"data", Obj(<< <<"reply", Str("done")>> >>)>> >>),
      Obj(<< <<"channel_id", Str("c1")>>,
             <<"ai_response", Obj(<< <<"data", Obj(<< <<"reply", Str("early")>> >>)>> >>)>> >>),
      Obj(<< <<"status", Str("error")>>, <<"channel_id", Str("c1")>>,
             <<"message", Str("workflow failed")>> >>),
      Obj(<< <<"status", Str("pending")>>, <<"channel_id", Str("c1")>> >>),
      Obj(<< <<"status", Str("success")>>, <<"channel_id", Str("c1")>>, <<"data", Obj(<< >>)>> >>),
      Obj(<< <<"status", Str("success")>>, <<"channel_id", Str("c2")>>,
             <<"data", Obj(<< <<"summary", Str("s")>> >>)>> >>),
      Obj(<< <<"status", Str("success")>>, <<"data", Obj(<< <<"reply", Str("no channel")>> >>)>> >>) }

\* the hook delivers a response and the effect at lines 82-245 runs
ResponseUpdate(r) ==
    /\ Len(updates) < MaxUpdates
    /\ updates' = Append(updates, r)
    /\ response' = r
    /\ LET status == StatusOf(r)
           channelId == Prop(r, "channel_id")
       IN  IF ~Truthy(r) THEN
                UNCHANGED <<messages, isLoading, isConnectingRef, processedChannels, connected>>
           ELSE IF status \in {Str("success"), Str("completed")} \/ HasAiResponseData(r)
           THEN IF ~HasValidData(ResponseDataOf(r)) \/ IsDuplicate(channelId, processedChannels)
                THEN UNCHANGED <<messages, isLoading, isConnectingRef, processedChannels,
                                 connected>>
                ELSE /\ processedChannels' = MarkProcessed(channelId, processedChannels)
                     /\ messages' = Append(messages, AssistantMessage(channelId))
                     /\ isLoading' = FALSE
                     /\ IF status \in {Str("success"), Str("completed")}
                        THEN connected' = FALSE /\ isConnectingRef' = FALSE
                        ELSE UNCHANGED <<connected, isConnectingRef>>
           ELSE IF status = Str("error")
           THEN /\ messages' = Append(messages, ErrorMessage(channelId))
                /\ isLoading' = FALSE
                /\ UNCHANGED <<isConnectingRef, processedChannels, connected>>
           ELSE UNCHANGED <<messages, isLoading, isConnectingRef, processedChannels, connected>>
    /\ UNCHANGED <<sends, timers>>
    /\ UNCHANGED back

\* the hook reports an error and the effect at lines 248-260 runs
ModelRiverError ==
    /\ Len(updates) < MaxUpdates
    /\ updates' = Append(updates, Null)
    /\ messages' = Append(messages, ErrorMessage(Undef))
    /\ isLoading' = FALSE
    /\ UNCHANGED <<isConnectingRef, processedChannels, response, connected, sends, timers>>
    /\ UNCHANGED back

\* what the user has typed
FrontInputs == {"   ", "hello"}

\* inputValue.trim() is empty
IsBlank(text) == \A n \in 1..Len(text) : SubSeq(text, n, n) = " "

\* the test at line 298
GuardSet(guard) == guard

\* sendMessage from its entry to the await of fetch (lines 280-314), or to
\* its return; the call keeps the response and the connection state it was
\* rendered with (lines 333 and 343 read them after the await)
SendMessage(text) ==
    /\ Len(sends) < MaxSends
    /\ LET call == [text |-> text, pc |-> "returned", loading |-> FALSE, issued |-> FALSE,
                    sawCompleted |->
                        /\ Truthy(response)
                        /\ \/ Prop(response, "status") = Str("completed")
                           \/ OptProp(Prop(response, "meta"), "status") = Str("completed"),
                    sawConnected |-> connected]
       IN  IF IsBlank(text) \/ isLoading
           THEN /\ sends' = Append(sends, call)
                /\ UNCHANGED <<messages, isLoading>>
           ELSE /\ isLoading' = TRUE
                /\ messages' = Append(messages, UserMessage)
                /\ IF GuardSet(isConnectingRef)
                   THEN sends' = Append(sends, [call EXCEPT !.loading = TRUE])
                   ELSE sends' = Append(sends, [call EXCEPT !.loading = TRUE, !.issued = TRUE,
                                                            !.pc = "fetching"])
    /\ UNCHANGED <<isConnectingRef, processedChannels, response, connected, timers, updates>>
    /\ UNCHANGED back

\* what the backend's /chat answers, or that no answer arrives
FetchOutcomes ==
    { [ok |-> TRUE, data |-> UpstreamData(Str("c1"))],
      [ok |-> TRUE, data |-> Obj(<< <<"channel_id", Str("c1")>> >>)],
      [ok |-> FALSE, data |-> Obj(<< <<"error", Str("Message is required")>> >>)],
      [ok |-> FALSE, data |-> Undef] }

\* whether the try block gets past line 329
ConnectionDetails(outcome) ==
    /\ outcome.ok
    /\ Truthy(Prop(outcome.data, "channel_id"))
    /\ Truthy(Prop(outcome.data, "ws_token"))
    /\ Truthy(Prop(outcome.data, "websocket_url"))
    /\ Truthy(Prop(outcome.data, "websocket_channel"))

\* lines 350-365: the guard is set, connect is called, the timer is started
Connect(i) ==
    /\ isConnectingRef' = TRUE
    /\ connected' = TRUE
    /\ timers' = timers + 1
    /\ sends' = [sends EXCEPT ![i].pc = "done"]

\* sendMessage after the await of fetch (lines 316-348 and 367-371), up to its
\* next await or to its end
FetchSettle(i, outcome) ==
    /\ i \in 1..Len(sends)
    /\ sends[i].pc = "fetching"
    /\ IF ~ConnectionDetails(outcome)
       THEN \* the catch block
            /\ isLoading' = FALSE
            /\ sends' = [sends EXCEPT ![i].pc = "failed"]
            /\ UNCHANGED <<isConnectingRef, response, connected, timers>>
       ELSE IF sends[i].sawCompleted
       THEN \* reset(), then the delay of line 337
            /\ response' = Null
            /\ sends' = [sends EXCEPT ![i].pc = "after_reset"]
            /\ UNCHANGED <<isLoading, isConnectingRef, connected, timers>>
       ELSE IF sends[i].sawConnected
       THEN \* disconnect(), then the delay of line 347
            /\ connected' = FALSE
            /\ sends' = [sends EXCEPT ![i].pc = "after_disconnect"]
            /\ UNCHANGED <<isLoading, isConnectingRef, response, timers>>
       ELSE /\ Connect(i)
            /\ UNCHANGED <<isLoading, response>>
    /\ UNCHANGED <<messages, processedChannels, updates>>
    /\ UNCHANGED back

\* sendMessage after one of its two delays
DelayEnds(i) ==
    /\ i \in 1..Len(sends)
    /\ sends[i].pc \in {"after_reset", "after_disconnect"}
    /\ IF sends[i].pc = "after_reset" /\ sends[i].sawConnected
       THEN /\ connected' = FALSE
            /\ sends' = [sends EXCEPT ![i].pc = "after_disconnect"]
            /\ UNCHANGED <<isConnectingRef, timers>>
       ELSE Connect(i)
    /\ UNCHANGED <<messages, isLoading, processedChannels, response, updates>>
    /\ UNCHANGED back

\* the callback of the timer started at line 363 runs
TimerFires ==
    /\ timers > 0
    /\ timers' = timers - 1
    /\ isConnectingRef' = FALSE
    /\ UNCHANGED <<messages, isLoading, processedChannels, response, connected, sends, updates>>
    /\ UNCHANGED back

FrontNext ==
    \/ \E text \in FrontInputs : SendMessage(text)
    \/ \E i \in 1..MaxSends, outcome \in FetchOutcomes : FetchSettle(i, outcome)
    \/ \E i \in 1..MaxSends : DelayEnds(i)
    \/ TimerFires
    \/ \E r \in FrontResponses : ResponseUpdate(r)
    \/ ModelRiverError

FrontSpec == Init /\ [][FrontNext]_vars

\* what the browser guarantees: a fetch settles, a timer's callback runs.
\* Nothing obliges the hook to deliver an update or the user to type.
FrontFairSpec ==
    /\ FrontSpec
    /\ \A i \in 1..MaxSends :
          /\ WF_vars(\E outcome \in FetchOutcomes : FetchSettle(i, outcome))
          /\ WF_vars(DelayEnds(i))
    /\ WF_vars(TimerFires)

(* Properties                                                              *)
(***************************************************************************)

\* every record of every conversation log
RecordsOf(convs) ==
    UNION { { convs[k][n] : n \in 1..Len(convs[k]) } : k \in DOMAIN convs }

AllRecords == RecordsOf(conversations)

\* the channel_id a received webhook carries
HookChannel(h) == Lookup(h.req.body, "channel_id")

\* the records a step appends: the last record of each log that grew
AppendedRecords ==
    { conversations'[k][Len(conversations'[k])] :
        k \in { x \in DOMAIN conversations' :
                  x \notin DOMAIN conversations
                  \/ Len(conversations'[x]) > Len(conversations[x]) } }

\* the step receives a webhook
HookArrives == Len(hooks') = Len(hooks) + 1

\* the identifiers /chat has minted as message ids
ChatMessageIds == { chats[i].msgId : i \in 1..Len(chats) } \ {Undef}

\* what C1 requires of every step
C1_Step ==
    /\ HookArrives =>
         LET h == hooks'[Len(hooks')]
             c == HookChannel(h)
         IN  /\ c \notin DOMAIN pendingRequests'
             /\ Cardinality(AppendedRecords) = 1
             /\ IF c \in DOMAIN pendingRequests
                THEN LET e == pendingRequests[c]
                     IN  /\ h.correlated
                         /\ h.messageId = e.messageId
                         /\ \A r \in AppendedRecords :
                              /\ r.id = e.messageId
                              /\ r.prompt = e.prompt
                              /\ r.conversation_id = e.conversationId
                ELSE /\ ~h.correlated
                     /\ h.messageId \notin ChatMessageIds
                     /\ \A r \in AppendedRecords :
                          /\ r.id = h.messageId
                          /\ r.id \notin { x.id : x \in AllRecords }
                          /\ r.prompt = Str("Unknown prompt")
                          /\ r.conversation_id = Undef
    /\ \A c \in (DOMAIN pendingRequests') \ (DOMAIN pendingRequests) :
         \E i \in 1..Len(chats) :
            /\ chats[i].pc = "awaiting"
            /\ chats'[i].pc = "done"
            /\ chats'[i].res.status = 200
            /\ Lookup(chats'[i].res.body, "channel_id") = c

\* C1: a webhook for c that finds an entry for c takes its record's id, prompt
\* and conversation id from that entry and leaves the store without an entry
\* for c; a webhook for c that finds none is processed as uncorrelated (fresh
\* id, prompt 'Unknown prompt', no conversation id); and an entry for c appears
\* only when a /chat call returns c.  So of two webhooks for c with no /chat
\* result for c in between, the first matches and the second misses.
C1_SingleConsumption == [][C1_Step]_vars

\* two webhooks for the same id after one /chat for it: the first matched, the second missed
C1_Witness ==
    \E i, j \in 1..Len(hooks) :
       /\ i < j
       /\ HookChannel(hooks[i]) = HookChannel(hooks[j])
       /\ hooks[i].correlated
       /\ ~hooks[j].correlated
       /\ \E r \in AllRecords : r.id = hooks[i].messageId /\ r.prompt = Str("hi")
       /\ \E r \in AllRecords : r.id = hooks[j].messageId /\ r.prompt = Str("Unknown prompt")

\* C2: no two webhook handlers read the same Correlation Entry, and an entry a
\* handler has read is no longer in the store, also while that handler is
\* suspended at its callback POST: the lookup and the removal both precede the
\* suspension.  Entries are told apart by their messageId.
C2_AtMostOneReader ==
    /\ \A i, j \in 1..Len(hooks) :
          (i # j /\ hooks[i].correlated /\ hooks[j].correlated)
             => hooks[i].messageId # hooks[j].messageId
    /\ \A i \in 1..Len(hooks) :
          hooks[i].correlated
             => \A k \in DOMAIN pendingRequests :
                   pendingRequests[k].messageId # hooks[i].messageId

\* two handlers for the same id are suspended at their callback POSTs at the
\* same time; the first read the entry, the second found none
C2_Witness ==
    \E i, j \in 1..Len(hooks) :
       /\ i < j
       /\ HookChannel(hooks[i]) = HookChannel(hooks[j])
       /\ hooks[i].pc = "awaiting"
       /\ hooks[j].pc = "awaiting"
       /\ hooks[i].correlated
       /\ ~hooks[j].correlated

\* what C3 requires of every step
C3_Step ==
    /\ \A i \in 1..Len(chats) :
          (chats[i].pc = "awaiting" /\ chats'[i].pc = "done" /\ chats'[i].res.status # 200)
             => pendingRequests' = pendingRequests
    /\ \A k \in DOMAIN pendingRequests :
          \E i \in 1..Len(chats) :
             /\ chats[i].msgId = pendingRequests[k].messageId
             /\ chats[i].res.status = 200

\* C3: when the async-submit call of a /chat request fails (the call rejects
\* or its result cannot be read, so /chat does not answer 200), the step leaves
\* the Correlation Store as it was; and every stored entry belongs to a /chat
\* request that was answered 200.
C3_NoEntryOnFailure == [][C3_Step]_vars

\* a /chat request whose upstream call was issued and failed, next to the
\* entry of another request
C3_Witness ==
    /\ DOMAIN pendingRequests # {}
    /\ \E i \in 1..Len(chats) :
          /\ chats[i].pc = "done"
          /\ chats[i].msgId # Undef
          /\ chats[i].res.status = 500

\* C4: a webhook with no matching entry, with an invalid callback address or
\* with a failed callback dispatch is answered 200 with success: true
C4_BusinessFailuresAcknowledged ==
    \A i \in 1..Len(hooks) :
       (/\ hooks[i].pc = "done"
        /\ \/ ~hooks[i].correlated
           \/ hooks[i].cb \in {"invalid", "error_response", "no_response"})
          => /\ hooks[i].res.status = 200
             /\ Lookup(hooks[i].res.body, "success") = Bool("true")

\* C5: every received webhook is eventually answered
C5_EventuallyAcknowledged ==
    \A i \in 1..MaxWebhooks :
       (Len(hooks) >= i) ~> (Len(hooks) >= i /\ hooks[i].res.status # 0)

\* a webhook whose callback dispatch failed has been answered
C5_Witness ==
    \E i \in 1..Len(hooks) :
       /\ hooks[i].cb \in {"error_response", "no_response"}
       /\ hooks[i].res.status # 0

\* C6: once the callback POST of a webhook has been issued, the webhook has
\* been answered (the handler does not wait for the POST to complete)
C6_AckNotBehindCallback ==
    \A n \in 1..Len(posts) : hooks[posts[n].hook].res.status # 0

\* C7: the response of every record in every Conversation Log is defined
C7_ResponseDefined ==
    \A r \in AllRecords : r.response # Undef

\* the records the handler of webhook h appended
HookRecords(h) == { r \in AllRecords : r.id = h.messageId }

\* whether the object v has a field k
HasField(v, k) == v.t = "object" /\ \E n \in 1..Len(v.o) : v.o[n][1] = k

\* the webhooks whose body carries data and no ai_response: data is what is normalized
PlainHooks ==
    { i \in 1..Len(hooks) :
        /\ HasField(hooks[i].req.body, "data")
        /\ ~HasField(hooks[i].req.body, "ai_response") }

HookData(h) == Lookup(h.req.body, "data")

\* the field k of v, undefined when v has no such field or is no object,
\* array or string
FieldOf(v, k) == IF v.t \in {"object", "array", "string"} THEN Lookup(v, k) ELSE Undef

\* the message content of the first choice of v, undefined when there is none
FirstChoiceContent(v) ==
    FieldOf(FieldOf(FieldOf(FieldOf(v, "choices"), "0"), "message"), "content")

\* C8: a non-array object without a choices and a response field is stored
\* unchanged as the record's response (so both serialize to the same text), and
\* {choices:[{message:{content:X}}]} with a non-empty string X is stored as X
C8_RoundTrip ==
    \A i \in PlainHooks :
       LET d == HookData(hooks[i])
           x == FirstChoiceContent(d)
       IN  /\ (d.t = "object" /\ ~HasField(d, "choices") /\ ~HasField(d, "response"))
                => /\ HookRecords(hooks[i]) # {}
                   /\ \A r \in HookRecords(hooks[i]) :
                         r.response = d /\ JSONstringify(r.response) = Str(JsonText(d))
           /\ (IsString(x) /\ x.s # "" /\ d = ChoicesOf(x))
                => /\ HookRecords(hooks[i]) # {}
                   /\ \A r \in HookRecords(hooks[i]) : r.response = x

\* one webhook with a structured object and one with a chat completion
C8_Witness ==
    \E i, j \in PlainHooks :
       /\ HookData(hooks[i]) = Obj(<< <<"answer", Str("42")>>, <<"tags", Arr(<< Str("x") >>)>> >>)
       /\ \E r \in HookRecords(hooks[i]) : r.response = HookData(hooks[i])
       /\ HookData(hooks[j]) = ChoicesOf(Str("X"))
       /\ \E r \in HookRecords(hooks[j]) : r.response = Str("X")

\* C9 as stated: the value itself exactly for a non-array object without a
\* choices and a response field, a string in every other case
C9_ObjectOrString ==
    \A i \in PlainHooks :
       LET d == HookData(hooks[i])
       IN  \A r \in HookRecords(hooks[i]) :
              IF d.t = "object" /\ ~HasField(d, "choices") /\ ~HasField(d, "response")
              THEN r.response = d
              ELSE IsString(r.response)

\* C9 as amended: the value itself exactly when it is an object or an array
\* whose choices and response properties are absent or falsy; in every other
\* case the first truthy message content of choices[0] or of
\* response.choices[0], and without one the JSON text of the value, a string
C9_PassThroughOrExtract ==
    \A i \in PlainHooks :
       LET d == HookData(hooks[i])
           first == FirstChoiceContent(d)
           second == FirstChoiceContent(FieldOf(d, "response"))
       IN  /\ HookRecords(hooks[i]) # {}
           /\ \A r \in HookRecords(hooks[i]) :
                 IF /\ d.t \in {"object", "array"}
                    /\ ~Truthy(FieldOf(d, "choices"))
                    /\ ~Truthy(FieldOf(d, "response"))
                 THEN r.response = d
                 ELSE /\ r.response # d
                      /\ IF Truthy(first) THEN r.response = first
                         ELSE IF Truthy(second) THEN r.response = second
                         ELSE r.response = Str(JsonText(d))

\* an array passed through as it is, next to a primitive turned into its JSON text
C9_Witness ==
    \E i, j \in PlainHooks :
       /\ HookData(hooks[i]) = Arr(<< Str("a"), Num("1") >>)
       /\ \E r \in HookRecords(hooks[i]) : r.response = HookData(hooks[i])
       /\ HookData(hooks[j]) = Num("7")
       /\ \E r \in HookRecords(hooks[j]) : r.response = Str("7")

\* C10: no webhook body makes the handler fail (each is answered 200 and its
\* record is appended), and webhooks with equal bodies store equal responses
C10_TotalDeterministic ==
    /\ \A i \in 1..Len(hooks) :
          /\ hooks[i].res.status = 200
          /\ HookRecords(hooks[i]) # {}
    /\ \A i, j \in 1..Len(hooks) :
          hooks[i].req.body = hooks[j].req.body
             => \A r \in HookRecords(hooks[i]), q \in HookRecords(hooks[j]) :
                   r.response = q.response

\* the same body with null data twice, once correlated and once not
C10_Witness ==
    \E i, j \in 1..Len(hooks) :
       /\ i < j
       /\ hooks[i].req.body = hooks[j].req.body
       /\ HookData(hooks[i]) = Null
       /\ hooks[i].correlated
       /\ ~hooks[j].correlated
       /\ \E r \in HookRecords(hooks[i]) : r.response = Str("null")

\* the callback POSTs issued for webhook i
PostsOf(i) == { n \in 1..Len(posts) : posts[n].hook = i }

\* the address a webhook carries at the top level of its body, inside its data
\* and in its header
TopAddress(h) == FieldOf(h.req.body, "callback_url")
DataAddress(h) == FieldOf(FieldOf(h.req.body, "data"), "callback_url")
HeaderAddress(h) == h.req.header

\* an address is present at a place when the value there is neither absent,
\* null nor empty
Present(u) == Truthy(u)

\* C11: the address the handler resolves is the top-level callback_url when
\* one is present, else data.callback_url when one is present, else the header
\* (so a body-level address beats the header); the POST goes to that address;
\* and with no address at any of the three places no POST is issued
C11_Precedence ==
    \A i \in 1..Len(hooks) :
       LET h == hooks[i]
           expected == IF Present(TopAddress(h)) THEN TopAddress(h)
                       ELSE IF Present(DataAddress(h)) THEN DataAddress(h)
                       ELSE HeaderAddress(h)
       IN  /\ h.callbackUrl = expected
           /\ \A n \in PostsOf(i) : posts[n].url = expected
           /\ (~Present(TopAddress(h)) /\ ~Present(DataAddress(h)) /\ ~Present(HeaderAddress(h)))
                 => (PostsOf(i) = {} /\ h.cb = "none")

\* a webhook with an address at all three places was posted to the top-level
\* one, and one with addresses in data and header to the one in data
C11_Witness ==
    \E i, j \in 1..Len(hooks) :
       /\ Present(TopAddress(hooks[i])) /\ Present(DataAddress(hooks[i]))
       /\ Present(HeaderAddress(hooks[i]))
       /\ \E n \in PostsOf(i) : posts[n].url = TopUrl
       /\ ~Present(TopAddress(hooks[j])) /\ Present(DataAddress(hooks[j]))
       /\ Present(HeaderAddress(hooks[j]))
       /\ \E n \in PostsOf(j) : posts[n].url = DataUrl

\* whether u is a string beginning with 'http'
BeginsWithHttp(u) == u.t = "string" /\ Len(u.s) >= 4 /\ SubSeq(u.s, 1, 4) = "http"

\* C12: a callback POST is issued for a webhook exactly when its resolved
\* address is a string beginning with 'http'; a webhook whose resolved address
\* is anything else is answered 200 with success: true
C12_InvalidAddressSkipped ==
    \A i \in 1..Len(hooks) :
       LET h == hooks[i]
       IN  /\ (PostsOf(i) # {}) <=> BeginsWithHttp(h.callbackUrl)
           /\ ~BeginsWithHttp(h.callbackUrl)
                 => /\ h.res.status = 200
                    /\ Lookup(h.res.body, "success") = Bool("true")

\* "not-a-url" in the body beat a valid header: no POST, answered 200
C12_Witness ==
    \E i \in 1..Len(hooks) :
       /\ hooks[i].callbackUrl = Str("not-a-url")
       /\ BeginsWithHttp(HeaderAddress(hooks[i]))
       /\ PostsOf(i) = {}
       /\ hooks[i].cb = "invalid"
       /\ hooks[i].res.status = 200

\* C13: a callback POST answered with a status below 500 is taken as
\* delivered, one answered 5xx or not answered at all as failed, and in every
\* one of these cases the webhook is acknowledged as if nothing had happened
C13_FailureKeepsAck ==
    \A i \in 1..Len(hooks) :
       (hooks[i].pc = "done" /\ PostsOf(i) # {})
          => /\ (hooks[i].cb = "delivered") <=> (hooks[i].cbStatus \in 1..499)
             /\ hooks[i].cb \in {"delivered", "error_response", "no_response"}
             /\ hooks[i].res.status = 200
             /\ Lookup(hooks[i].res.body, "record_id") = hooks[i].messageId

\* what C14 requires of every step
C14_Step ==
    /\ \A i \in 1..Len(hooks') :
          Cardinality({ n \in 1..Len(posts') : posts'[n].hook = i }) <= 1
    /\ (Len(hooks') = Len(hooks)) => posts' = posts

\* C14: no webhook ever has more than one callback POST, and the step in
\* which a POST settles, whatever its outcome, issues none
C14_AtMostOnePost == [][C14_Step]_vars

\* a dispatch answered 404 and a dispatch that failed, with one POST each
C14_Witness ==
    \E i, j \in 1..Len(hooks) :
       /\ hooks[i].pc = "done" /\ hooks[i].cb = "delivered" /\ hooks[i].cbStatus = 404
       /\ hooks[j].pc = "done" /\ hooks[j].cb \in {"error_response", "no_response"}
       /\ Cardinality(PostsOf(i)) = 1
       /\ Cardinality(PostsOf(j)) = 1

\* the messageIds the Correlation Store holds
StoredMessageIds == { pendingRequests[k].messageId : k \in DOMAIN pendingRequests }

\* what C15 requires of every step
C15_Step ==
    HookArrives =>
       LET c == HookChannel(hooks'[Len(hooks')])
       IN  /\ AppendedRecords # {}
           /\ \A r \in AppendedRecords :
                 IF c \in DOMAIN pendingRequests
                 THEN r.id = pendingRequests[c].messageId
                 ELSE /\ r.id \notin StoredMessageIds
                      /\ r.id \notin ChatMessageIds
                      /\ r.id \notin { x.id : x \in AllRecords }

\* C15: the record a webhook appends has the messageId of the entry stored for
\* its channel_id when there is one; when there is none its id is new: no
\* stored entry, no /chat request and no earlier record has it
C15_RecordId == [][C15_Step]_vars

\* one webhook matched, another missed while an entry for another id is stored
C15_Witness ==
    /\ DOMAIN pendingRequests # {}
    /\ \E i, j \in 1..Len(hooks) :
          /\ hooks[i].correlated /\ hooks[i].messageId \in ChatMessageIds
          /\ ~hooks[j].correlated
          /\ HookRecords(hooks[i]) # {}
          /\ HookRecords(hooks[j]) # {}

\* the /chat requests whose entry webhook h consumed
ChatsOf(h) == { j \in 1..Len(chats) : chats[j].msgId = h.messageId }

\* C16: the record of a webhook that matched an entry has the message of the
\* /chat request that stored it as its prompt; a webhook that matched none is
\* answered 200 and its record has the prompt 'Unknown prompt'
C16_Prompt ==
    \A i \in 1..Len(hooks) :
       LET h == hooks[i]
       IN  /\ HookRecords(h) # {}
           /\ IF h.correlated
              THEN /\ ChatsOf(h) # {}
                   /\ \A r \in HookRecords(h), j \in ChatsOf(h) :
                         r.prompt = Lookup(chats[j].body, "message")
              ELSE /\ \A r \in HookRecords(h) : r.prompt = Str("Unknown prompt")
                   /\ h.pc = "done" => h.res.status = 200

\* the JSON primitives
IsPrimitive(v) == v.t \in {"string", "number", "boolean"}

\* C17: the data of every posted Callback Payload is a non-null, non-array
\* object; an inbound array is found under items and an inbound primitive
\* under content; and no dispatch is abandoned for invalid data
C17_DataIsObject ==
    /\ \A n \in 1..Len(posts) : Lookup(posts[n].payload, "data").t = "object"
    /\ \A i \in 1..Len(hooks) : hooks[i].cb # "setup_error"
    /\ \A i \in PlainHooks :
          BeginsWithHttp(hooks[i].callbackUrl)
             => \E n \in PostsOf(i) :
                   LET d == HookData(hooks[i])
                       sent == Lookup(posts[n].payload, "data")
                   IN  /\ IsArray(d) => FieldOf(sent, "items") = d
                       /\ IsPrimitive(d) => FieldOf(sent, "content") = d

\* the webhooks of the end-to-end scenario: a chat completion as data and no
\* callback address anywhere
IsScenarioHook(h) ==
    /\ h.req.header = Undef
    /\ ~HasField(h.req.body, "callback_url")
    /\ ~HasField(h.req.body, "ai_response")
    /\ HookData(h) = ChoicesOf(FirstChoiceContent(HookData(h)))
    /\ IsString(FirstChoiceContent(HookData(h)))
    /\ ~HasField(HookData(h), "callback_url")

\* the log of conversation k, empty when there is none
LogOf(convs, k) == IF k \in DOMAIN convs THEN convs[k] ELSE << >>

\* what C18 requires of every step
C18_Step ==
    (HookArrives /\ IsScenarioHook(hooks'[Len(hooks')])
       /\ HookChannel(hooks'[Len(hooks')]) \in DOMAIN pendingRequests)
    => LET h == hooks'[Len(hooks')]
           c == HookChannel(h)
           e == pendingRequests[c]
           log == LogOf(conversations', e.conversationId)
       IN  /\ \E j \in 1..Len(chats) :
                 /\ chats[j].res.status = 200
                 /\ Lookup(chats[j].res.body, "channel_id") = c
                 /\ chats[j].msgId = e.messageId
                 /\ chats[j].convId = e.conversationId
                 /\ Lookup(chats[j].body, "message") = e.prompt
           /\ h.res.status = 200
           /\ Lookup(h.res.body, "success") = Bool("true")
           /\ Lookup(h.res.body, "channel_id") = c
           /\ Lookup(h.res.body, "record_id") = e.messageId
           /\ Len(log) = Len(LogOf(conversations, e.conversationId)) + 1
           /\ SubSeq(log, 1, Len(log) - 1) = LogOf(conversations, e.conversationId)
           /\ log[Len(log)].response = FirstChoiceContent(HookData(h))
           /\ log[Len(log)].prompt = e.prompt
           /\ log[Len(log)].id = e.messageId
           /\ \A k \in DOMAIN conversations' :
                 k # e.conversationId
                    => (k \in DOMAIN conversations /\ conversations'[k] = conversations[k])
           /\ c \notin DOMAIN pendingRequests'

\* C18: when a webhook for c with a chat completion s as data and no callback
\* address arrives while the store holds the entry a successful /chat with
\* message m stored for c, it is answered 200 with channel_id c and the entry's
\* messageId as record_id, the log of the entry's conversation grows by exactly
\* one record, with response s and prompt m, no other log changes, and the
\* entry for c is gone
C18_EndToEnd == [][C18_Step]_vars

\* two /chat requests of one conversation, each followed by its webhook: the
\* log of the conversation holds their two records
C18_Witness ==
    /\ Str("conv-1") \in DOMAIN conversations
    /\ Len(conversations[Str("conv-1")]) = 2
    /\ \A n \in 1..2 :
          /\ conversations[Str("conv-1")][n].response = Str("hello back")
          /\ conversations[Str("conv-1")][n].prompt = Str("yo")
    /\ DOMAIN pendingRequests = {}
    /\ \A i \in 1..Len(hooks) : hooks[i].correlated /\ hooks[i].res.status = 200

\* what C19 requires of every step
C19_Step ==
    \A i \in 1..Len(chats) :
       (/\ chats[i].pc = "awaiting"
        /\ chats'[i].pc = "done"
        /\ chats'[i].reply.kind = "resolve"
        /\ HasField(chats'[i].reply.data, "channel_id"))
       => LET data == chats'[i].reply.data
              c == Lookup(data, "channel_id")
          IN  /\ chats'[i].res.status = 200
              /\ chats'[i].res.body =
                    Obj(<< <<"channel_id", c>>,
                           <<"ws_token", Lookup(data, "ws_token")>>,
                           <<"websocket_url", Lookup(data, "websocket_url")>>,
                           <<"websocket_channel", Lookup(data, "websocket_channel")>>,
                           <<"project_id", Lookup(data, "project_id")>> >>)
              /\ c \in DOMAIN pendingRequests'
              /\ pendingRequests'[c].prompt = Lookup(chats[i].body, "message")

\* C19: a /chat request that passed the two checks (every request that awaits
\* the upstream did) and whose upstream call resolves with a body carrying
\* channel_id c is answered 200 with the five fields of that body, and in the
\* state in which the response is sent the store holds an entry for c whose
\* prompt is the request's message
C19_ChatSuccess == [][C19_Step]_vars

\* two /chat requests answered 200, one for each id, and both entries stored
C19_Witness ==
    \E i, j \in 1..Len(chats) :
       /\ i # j
       /\ chats[i].res.status = 200
       /\ chats[j].res.status = 200
       /\ Lookup(chats[i].res.body, "channel_id") = Str("c1")
       /\ Lookup(chats[j].res.body, "channel_id") = Str("c2")
       /\ Lookup(chats[i].res.body, "ws_token") = Str("t")
       /\ DOMAIN pendingRequests = {Str("c1"), Str("c2")}
       /\ pendingRequests[Str("c1")].prompt = Lookup(chats[i].body, "message")
       /\ pendingRequests[Str("c2")].prompt = Lookup(chats[j].body, "message")

\* a /chat request arrives in this step
ChatArrives == Len(chats') = Len(chats) + 1

\* what C20 requires of every step
C20_Step ==
    (ChatArrives /\ FieldOf(chats'[Len(chats')].body, "message") \in {Undef, Str("")})
    => /\ chats'[Len(chats')].res =
             [status |-> 400, body |-> Obj(<< <<"error", Str("Message is required")>> >>)]
       /\ asyncCalls' = asyncCalls
       /\ pendingRequests' = pendingRequests

\* C20: a /chat request without a message, or with an empty one, is answered
\* 400 'Message is required' in the step in which it arrives, with no
\* async-submit call and no change to the store, whether or not the API key
\* is configured
C20_MessageRequired == [][C20_Step]_vars

\* with no API key configured, a request without a message and one with an
\* empty message were both answered 400
C20_Witness ==
    /\ ~Truthy(apiKey)
    /\ \E i, j \in 1..Len(chats) :
          /\ chats[i].body = Obj(<< >>)
          /\ chats[j].body = Obj(<< <<"message", Str("")>> >>)
          /\ chats[i].res.status = 400
          /\ chats[j].res.status = 400
    /\ asyncCalls = << >>

\* the /chat requests whose upstream call failed with an error response
FailedChats ==
    { i \in 1..Len(chats) : chats[i].reply.kind = "reject" /\ chats[i].reply.response # Undef }

\* the values of the fields of an object
FieldValues(v) == { v.o[n][2] : n \in 1..Len(v.o) }

\* C21 as stated: a /chat request whose upstream call failed with an error
\* response is answered 500, and the upstream status and the upstream body are
\* both fields of the response
C21_StatusAndBody ==
    \A i \in FailedChats :
       LET r == chats[i].reply.response
       IN  /\ chats[i].res.status = 500
           /\ Lookup(r, "data") \in FieldValues(chats[i].res.body)
           /\ Lookup(r, "status") \in FieldValues(chats[i].res.body)

\* C21 as amended: such a request is answered 500 with exactly two fields:
\* details, the upstream body, and error, the message of the upstream body or,
\* when it has none, the error message of the HTTP client; the upstream status
\* is not a field of the response
C21_BodyOnly ==
    \A i \in FailedChats :
       LET r == chats[i].reply.response
           upstreamBody == Lookup(r, "data")
           upstreamMessage == FieldOf(upstreamBody, "message")
       IN  /\ chats[i].res.status = 500
           /\ chats[i].res.body =
                 Obj(<< <<"error", IF Truthy(upstreamMessage) THEN upstreamMessage
                                   ELSE Str(chats[i].reply.message)>>,
                        <<"details", upstreamBody>> >>)
           /\ Lookup(r, "status") \notin FieldValues(chats[i].res.body)

\* one failure whose body has a message and one whose body is a bare string
C21_Witness ==
    \E i, j \in FailedChats :
       /\ Lookup(chats[i].reply.response, "status") = Num("401")
       /\ Lookup(chats[i].res.body, "error") = Str("invalid key")
       /\ Lookup(chats[j].reply.response, "status") = Num("502")
       /\ Lookup(chats[j].res.body, "details") = Str("Bad Gateway")
       /\ Lookup(chats[j].res.body, "error") = Str("Request failed with status code 502")

\* the /chat requests answered 500 for the missing API key
NoKeyChats ==
    { i \in 1..Len(chats) :
        /\ chats[i].res.status = 500
        /\ chats[i].msgId = Undef }

\* what C22 requires of every step
C22_Step ==
    /\ (ChatArrives /\ Truthy(FieldOf(chats'[Len(chats')].body, "message")) /\ ~Truthy(apiKey))
          => /\ chats'[Len(chats')].res.status = 500
             /\ Lookup(chats'[Len(chats')].res.body, "error") =
                   Str("MODELRIVER_API_KEY not configured. Set it in environment variables.")
             /\ chats'[Len(chats')].pc = "done"
             /\ UNCHANGED <<asyncCalls, pendingRequests, conversations, hooks, posts, uuidCount>>
    /\ (HookArrives /\ NoKeyChats # {})
          => /\ AppendedRecords # {}
             /\ hooks'[Len(hooks')].res.status \in {0, 200}
             /\ hooks'[Len(hooks')].res.status = 0 => hooks'[Len(hooks')].pc = "awaiting"
    /\ (ChatArrives /\ NoKeyChats # {} /\ ~Truthy(FieldOf(chats'[Len(chats')].body, "message")))
          => chats'[Len(chats')].res.status = 400

\* C22: a /chat request with a message and no configured API key is answered
\* 500 with the remediation message in the step in which it arrives, with no
\* async-submit call and no change to either store; requests that arrive after
\* it are handled as usual (a webhook is processed, a request without a
\* message is answered 400)
C22_NoKey == [][C22_Step]_vars

\* two requests refused for the missing key, and two webhooks acknowledged
C22_Witness ==
    /\ Cardinality(NoKeyChats) = 2
    /\ asyncCalls = << >>
    /\ Len(hooks) = 2
    /\ \A i \in 1..Len(hooks) : hooks[i].res.status = 200

\* C23: the acknowledgment is a function of the webhook and the store alone:
\* every answered webhook gets 200, success: true, its record's id as record_id
\* and its own channel_id, and two webhooks with the same body and header that
\* both found no entry get the same status, success and channel_id whatever
\* became of their callbacks
C23_AckIndependent ==
    /\ \A i \in 1..Len(hooks) :
          hooks[i].pc = "done"
             => /\ hooks[i].res.status = 200
                /\ Lookup(hooks[i].res.body, "record_id") = hooks[i].messageId
    /\ \A i, j \in 1..Len(hooks) :
          (/\ hooks[i].pc = "done" /\ hooks[j].pc = "done"
           /\ hooks[i].req = hooks[j].req
           /\ ~hooks[i].correlated /\ ~hooks[j].correlated)
             => /\ hooks[i].res.status = hooks[j].res.status
                /\ FieldOf(hooks[i].res.body, "success") = FieldOf(hooks[j].res.body, "success")
                /\ FieldOf(hooks[i].res.body, "channel_id") = FieldOf(hooks[j].res.body, "channel_id")

\* a retrieval request arrives in this step
GetArrives == Len(gets') = Len(gets) + 1

\* what C24 requires of every step
C24_Step ==
    GetArrives =>
       LET g == gets'[Len(gets')]
       IN  /\ IF g.id \in DOMAIN conversations
              THEN g.res.status = 200 /\ g.res.messages = conversations[g.id]
              ELSE /\ g.res.status = 404
                   /\ g.res.body = Obj(<< <<"error", Str("Conversation not found")>> >>)
           /\ conversations' = conversations
           /\ pendingRequests' = pendingRequests

\* C24: a retrieval for an id that has a log is answered 200 with that log,
\* one for an id without a log 404, and neither changes the logs or the store
C24_Retrieval == [][C24_Step]_vars

\* a log returned and a 404, with an entry pending in the store
C24_Witness ==
    /\ DOMAIN pendingRequests # {}
    /\ \E a, b \in 1..Len(gets) :
          /\ gets[a].id = Str("conv-1")
          /\ gets[a].res.status = 200
          /\ Len(gets[a].res.messages) = 1
          /\ gets[a].res.messages[1].prompt = Str("yo")
          /\ gets[b].id = Str("does-not-exist")
          /\ gets[b].res.status = 404

\* the ids whose log differs between the two states of a step
ChangedLogs ==
    { k \in (DOMAIN conversations) \cup (DOMAIN conversations') :
        \/ k \notin DOMAIN conversations
        \/ k \notin DOMAIN conversations'
        \/ conversations'[k] # conversations[k] }

\* what C25 requires of every step
C25_Step ==
    /\ \A k \in DOMAIN conversations :
          /\ k \in DOMAIN conversations'
          /\ Len(conversations'[k]) >= Len(conversations[k])
          /\ SubSeq(conversations'[k], 1, Len(conversations[k])) = conversations[k]
    /\ \A k \in DOMAIN conversations' : Len(conversations'[k]) >= 1
    /\ Cardinality(ChangedLogs) <= 1
    /\ \A k \in ChangedLogs :
          /\ HookArrives
          /\ Len(conversations'[k]) = Len(LogOf(conversations, k)) + 1
          /\ conversations'[k][Len(conversations'[k])].id = hooks'[Len(hooks')].messageId
    /\ HookArrives => ChangedLogs # {}

\* C25: in every step each log keeps the records it had, in their places; at
\* most one log changes, only in a step that processes a webhook, and by
\* exactly one record, that webhook's, added at the end; every processed
\* webhook adds one; and a log never exists without a record
C25_AppendOnly == [][C25_Step]_vars

\* a log of two records, with /chat requests and retrievals in the behaviour
C25_Witness ==
    /\ \E k \in DOMAIN conversations : Len(conversations[k]) = 2
    /\ Len(gets) >= 1
    /\ \E i \in 1..Len(chats) : chats[i].res.status = 200

\* a /chat request is answered 200 for id k in this step
ChatStores(k) ==
    \E i \in 1..Len(chats) :
       /\ chats[i].pc = "awaiting"
       /\ chats'[i].pc = "done"
       /\ chats'[i].res.status = 200
       /\ Lookup(chats'[i].res.body, "channel_id") = k

\* what C26 requires of every step
C26_Step ==
    \A k \in DOMAIN pendingRequests :
       /\ k \notin DOMAIN pendingRequests'
             => (HookArrives /\ HookChannel(hooks'[Len(hooks')]) = k)
       /\ (k \in DOMAIN pendingRequests' /\ pendingRequests'[k] # pendingRequests[k])
             => ChatStores(k)

C27_Step ==
    /\ \A i \in 1..Len(chats), k \in ChannelIds :
          (/\ chats[i].pc = "awaiting" /\ chats'[i].pc = "done"
           /\ chats'[i].res.status = 200
           /\ Lookup(chats'[i].res.body, "channel_id") = k)
             => /\ DOMAIN pendingRequests' = (DOMAIN pendingRequests) \cup {k}
                /\ pendingRequests'[k].messageId = chats[i].msgId
                /\ pendingRequests'[k].prompt = Lookup(chats[i].body, "message")
                /\ pendingRequests'[k].conversationId = chats[i].convId
                /\ \A x \in (DOMAIN pendingRequests) \ {k} :
                      pendingRequests'[x] = pendingRequests[x]
                /\ k \in DOMAIN pendingRequests
                      => pendingRequests[k].messageId \notin
                            { pendingRequests'[x].messageId : x \in DOMAIN pendingRequests' }
    /\ HookArrives =>
          LET c == HookChannel(hooks'[Len(hooks')])
          IN  /\ c \notin DOMAIN pendingRequests'
              /\ c \in DOMAIN pendingRequests
                    => \A r \in AppendedRecords :
                          /\ r.id = pendingRequests[c].messageId
                          /\ r.prompt = pendingRequests[c].prompt

\* C27: a /chat request answered for id k leaves exactly one entry under k,
\* its own, whether or not one was stored before (the earlier one is gone);
\* a webhook for k takes the entry stored at that moment and leaves none
C27_OneEntryPerId == [][C27_Step]_vars

\* two /chat requests answered for c1, then two webhooks for c1: one matched,
\* one missed, and the store is empty
C27_Witness ==
    /\ DOMAIN pendingRequests = {}
    /\ Len(chats) = 2
    /\ \A i \in 1..Len(chats) :
          chats[i].res.status = 200 /\ Lookup(chats[i].res.body, "channel_id") = Str("c1")
    /\ chats[1].body # chats[2].body
    /\ Len(hooks) = 2
    /\ \A i \in 1..Len(hooks) : HookChannel(hooks[i]) = Str("c1")
    /\ hooks[1].correlated
    /\ ~hooks[2].correlated

\* the /chat requests that passed the two checks
IssuedChats == { i \in 1..Len(chats) : chats[i].msgId # Undef }

\* the index of the webhook that appended record r
HooksOf(r) == { i \in 1..Len(hooks) : hooks[i].messageId = r.id }

\* C28: every /chat request that passed the checks has the conversationId the
\* client supplied, or one no client supplied and no other request has, and a
\* messageId no other request has; the records of the webhooks that matched
\* those requests are in the log of the request's conversationId; and in every
\* log the records have distinct ids and stand in the order in which their
\* webhooks were processed
C28_Ids ==
    /\ \A i \in IssuedChats :
          LET supplied == FieldOf(chats[i].body, "conversationId")
          IN  /\ IF Truthy(supplied) THEN chats[i].convId = supplied
                 ELSE \A j \in IssuedChats :
                         /\ chats[i].convId # FieldOf(chats[j].body, "conversationId")
                         /\ j # i => chats[i].convId # chats[j].convId
              /\ \A j \in IssuedChats :
                    /\ chats[i].msgId # chats[j].convId
                    /\ j # i => chats[i].msgId # chats[j].msgId
    /\ \A h \in 1..Len(hooks), j \in IssuedChats :
          (hooks[h].correlated /\ hooks[h].messageId = chats[j].msgId)
             => /\ chats[j].convId \in DOMAIN conversations
                /\ \E n \in 1..Len(conversations[chats[j].convId]) :
                      conversations[chats[j].convId][n].id = chats[j].msgId
    /\ \A k \in DOMAIN conversations :
          \A n, m \in 1..Len(conversations[k]) :
             n < m => /\ conversations[k][n].id # conversations[k][m].id
                      /\ \A a \in HooksOf(conversations[k][n]), b \in HooksOf(conversations[k][m]) :
                            a < b

\* two requests of conversation conv-1, their webhooks processed in the order
\* c2, c1: the log holds the two records in that order
C28_Witness ==
    /\ Str("conv-1") \in DOMAIN conversations
    /\ Len(conversations[Str("conv-1")]) = 2
    /\ conversations[Str("conv-1")][1].channel_id = Str("c2")
    /\ conversations[Str("conv-1")][2].channel_id = Str("c1")
    /\ conversations[Str("conv-1")][1].id # conversations[Str("conv-1")][2].id
    /\ \A i \in 1..Len(chats) : FieldOf(chats[i].body, "conversationId") = Str("conv-1")

\* what C29 requires of every step
C29_Step ==
    /\ GetArrives =>
          \A i \in 1..Len(hooks) :
             \A r \in HookRecords(hooks[i]) :
                (hooks[i].pc = "awaiting" /\ r.conversation_id = gets'[Len(gets')].id)
                   => \E n \in 1..Len(gets'[Len(gets')].res.messages) :
                         gets'[Len(gets')].res.messages[n] = r
    /\ HookArrives =>
          \A i \in 1..Len(hooks) :
             (hooks[i].pc = "awaiting" /\ hooks[i].correlated)
                => hooks'[Len(hooks')].messageId # hooks[i].messageId

\* the state half of C29: the record of every received webhook is in a log
\* and the entry it matched is not in the store, from the moment its callback
\* POST is issued, acknowledged or not
C29_State ==
    /\ \A i \in 1..Len(hooks) :
          /\ HookRecords(hooks[i]) # {}
          /\ hooks[i].correlated => hooks[i].messageId \notin StoredMessageIds
          /\ hooks[i].res.status = 0 => (hooks[i].pc = "awaiting" /\ PostsOf(i) # {})
    /\ \A n \in 1..Len(posts) : HookRecords(hooks[posts[n].hook]) # {}

\* C29: the record is appended and the entry removed before the callback POST
\* is issued and before the acknowledgment is sent: while a webhook's POST is
\* in flight its record is in the log and its entry is gone, a retrieval
\* handled meanwhile returns the record, and a webhook handled meanwhile does
\* not get the same entry
C29_RecordBeforeCallback == [](C29_State) /\ [][C29_Step]_vars

\* a retrieval returned the record of a webhook whose callback POST is still
\* in flight
C29_Witness ==
    \E i \in 1..Len(hooks), g \in 1..Len(gets) :
       /\ hooks[i].pc = "awaiting"
       /\ hooks[i].correlated
       /\ gets[g].res.status = 200
       /\ \E n \in 1..Len(gets[g].res.messages) : gets[g].res.messages[n].id = hooks[i].messageId

\* the payload with the identifiers of the record blanked
Scrubbed(payload) ==
    ObjAssign(ObjAssign(payload, "task_id", Null),
              "data", ObjAssign(Lookup(payload, "data"), "id", Null))

\* whether the address u has a /callback/<id> segment naming id
NamesChannel(u, id) ==
    \E n \in 1..Len(u.s) :
       /\ n + 9 + Len(id.s) <= Len(u.s)
       /\ SubSeq(u.s, n, n + 9 + Len(id.s)) = "/callback/" \o id.s
       /\ (n + 9 + Len(id.s) = Len(u.s)
           \/ SubSeq(u.s, n + 10 + Len(id.s), n + 10 + Len(id.s)) \in {"/", "?"})

\* C30: a webhook whose valid address has a /callback/<id> segment for an id
\* other than its channel_id is warned about and still gets its callback POST,
\* to that address, with the payload a webhook with the same body and a
\* matching address gets (the record ids aside)
C30_MismatchOnlyWarns ==
    /\ \A i \in 1..Len(hooks) :
          hooks[i].warned
             => /\ BeginsWithHttp(hooks[i].callbackUrl)
                /\ ~NamesChannel(hooks[i].callbackUrl, HookChannel(hooks[i]))
                /\ PostsOf(i) # {}
                /\ \A n \in PostsOf(i) : posts[n].url = hooks[i].callbackUrl
    /\ \A i, j \in 1..Len(hooks) :
          (/\ hooks[i].warned /\ ~hooks[j].warned
           /\ hooks[i].req.body = hooks[j].req.body
           /\ BeginsWithHttp(hooks[j].callbackUrl))
             => \A n \in PostsOf(i), m \in PostsOf(j) :
                   Scrubbed(posts[n].payload) = Scrubbed(posts[m].payload)
    /\ \A i \in 1..Len(hooks) :
          (BeginsWithHttp(hooks[i].callbackUrl)
           /\ NamesChannel(hooks[i].callbackUrl, HookChannel(hooks[i])))
             => ~hooks[i].warned

\* one webhook posted to .../callback/header with a warning, one with the
\* same body posted to .../callback/c1 without
C30_Witness ==
    \E i, j \in 1..Len(hooks) :
       /\ hooks[i].req.body = hooks[j].req.body
       /\ hooks[i].callbackUrl = HeaderUrl /\ hooks[i].warned
       /\ hooks[j].callbackUrl = Str("http://mr/callback/c1") /\ ~hooks[j].warned
       /\ \E n \in PostsOf(i), m \in PostsOf(j) :
             /\ posts[n].url = HeaderUrl
             /\ Scrubbed(posts[n].payload) = Scrubbed(posts[m].payload)

\* what C31 requires of every step
C31_Step ==
    /\ ChatArrives => pendingRequests' = pendingRequests
    /\ \A k \in DOMAIN pendingRequests' :
          (k \notin DOMAIN pendingRequests \/ pendingRequests'[k] # pendingRequests[k])
             => ChatStores(k)
    /\ HookArrives =>
          LET h == hooks'[Len(hooks')]
          IN  /\ HookChannel(h) \notin DOMAIN pendingRequests
                    => /\ h.messageId \notin ChatMessageIds
                       /\ \A i \in 1..Len(hooks) : hooks[i].messageId # h.messageId
                       /\ \A r \in AppendedRecords :
                             r.id = h.messageId /\ r.prompt = Str("Unknown prompt")
              /\ \A k \in DOMAIN pendingRequests :
                    k # HookChannel(h)
                       => k \in DOMAIN pendingRequests' /\ pendingRequests'[k] = pendingRequests[k]
    /\ \A k \in DOMAIN pendingRequests :
          k \notin DOMAIN pendingRequests'
             => HookArrives /\ HookChannel(hooks'[Len(hooks')]) = k

\* C31: the entry for an id is stored only in the step in which the upstream
\* call of /chat returns, never when the request arrives; a webhook handled
\* while no entry is stored for its id, the call still pending or not, gets a
\* fresh record id and the prompt 'Unknown prompt'; and an entry leaves the
\* store only in the step that handles a webhook for its id
C31_StoredAfterUpstream == [][C31_Step]_vars

\* a /chat request was received, a webhook for c1 was handled before its
\* upstream call returned with c1, and the entry stored afterwards is still there
C31_Witness ==
    /\ Len(chats) = 1 /\ Len(hooks) = 1
    /\ chats[1].pc = "done" /\ chats[1].res.status = 200
    /\ Lookup(chats[1].res.body, "channel_id") = Str("c1")
    /\ HookChannel(hooks[1]) = Str("c1")
    /\ hooks[1].pc = "done"
    /\ ~hooks[1].correlated
    /\ hooks[1].messageId = Uuid(3)
    /\ \E r \in HookRecords(hooks[1]) : r.prompt = Str("Unknown prompt")
    /\ Str("c1") \in DOMAIN pendingRequests
    /\ pendingRequests[Str("c1")].messageId = chats[1].msgId

\* the logs that hold a record of a webhook that matched no entry
UncorrelatedLogs ==
    { k \in DOMAIN conversations :
        \E n \in 1..Len(conversations[k]) : conversations[k][n].conversation_id = Undef }

\* whether some GET /conversations/:id request names the log k: the route
\* parameter is a string, whatever the request
Nameable(k) == k.t = "string"

\* C32: the records of the webhooks that matched no entry are all in one log,
\* every log is under a key that a GET /conversations/:id request can name,
\* and a retrieval of a named log returns every record in it
C32_ReadBack ==
    /\ Cardinality(UncorrelatedLogs) <= 1
    /\ \A k \in DOMAIN conversations : Nameable(k)
    /\ \A g \in 1..Len(gets) :
          gets[g].res.status = 200
             => \A n \in 1..Len(gets[g].res.messages) :
                   gets[g].res.messages[n] \in AllRecords

\* the positions of the field k in the object v
FieldPositions(v, k) == { n \in 1..Len(v.o) : v.o[n][1] = k }

\* C33: in every callback payload that was posted, data.id, task_id, the id of
\* the record the webhook appended and, when the webhook was acknowledged, the
\* acknowledgment's record_id are one value; data.conversation_id,
\* metadata.conversation_id and the record's conversation_id are one value;
\* and data has one id field and one conversation_id field, whatever the
\* inbound data carried there
C33_PayloadIds ==
    \A n \in 1..Len(posts) :
       LET payload == posts[n].payload
           data == FieldOf(payload, "data")
           h == hooks[posts[n].hook]
       IN  /\ FieldOf(data, "id") = FieldOf(payload, "task_id")
           /\ FieldOf(payload, "task_id") = h.messageId
           /\ \E r \in AllRecords :
                 /\ r.id = FieldOf(payload, "task_id")
                 /\ r.channel_id = HookChannel(h)
                 /\ r.conversation_id = FieldOf(data, "conversation_id")
           /\ h.res.status = 200 => FieldOf(h.res.body, "record_id") = FieldOf(payload, "task_id")
           /\ FieldOf(data, "conversation_id")
                 = FieldOf(FieldOf(payload, "metadata"), "conversation_id")
           /\ Cardinality(FieldPositions(data, "id")) = 1
           /\ Cardinality(FieldPositions(data, "conversation_id")) = 1

\* a correlated webhook of conversation conv-1 whose data carried an id and a
\* conversation_id of its own was posted with the record's identifiers and
\* acknowledged
C33_Witness ==
    \E n \in 1..Len(posts) :
       LET data == FieldOf(posts[n].payload, "data")
           h == hooks[posts[n].hook]
       IN  /\ FieldOf(HookData(h), "id") = Str("theirs")
           /\ FieldOf(HookData(h), "conversation_id") = Str("theirs")
           /\ h.correlated
           /\ h.res.status = 200
           /\ FieldOf(data, "id") = h.messageId
           /\ FieldOf(data, "conversation_id") = Str("conv-1")
           /\ FieldOf(data, "answer") = Str("42")

\* what C34 requires of every step: a webhook that has its response keeps it
\* and gets no other
C34_Step ==
    \A i \in 1..Len(hooks) :
       hooks[i].sent >= 1
          => /\ hooks'[i].sent = hooks[i].sent
             /\ hooks'[i].res = hooks[i].res

\* what C34 requires of every state: no webhook has more than one response,
\* a webhook has none only while its callback POST is awaited, and the
\* response of a finished webhook is the acknowledgment or the 500
C34_State ==
    \A i \in 1..Len(hooks) :
       /\ hooks[i].sent <= 1
       /\ hooks[i].sent = 0 <=> hooks[i].pc = "awaiting"
       /\ hooks[i].sent = 0 <=> hooks[i].res.status = 0
       /\ hooks[i].sent = 1 => hooks[i].res.status \in {200, 500}

\* C34: each webhook request receives exactly one response on every path:
\* normal completion, a callback failure caught by the callback's catch block,
\* an exception caught by the handler's outer catch block
C34_OneResponse == [](C34_State) /\ [][C34_Step]_vars

\* one webhook whose callback got no answer was acknowledged, one whose
\* callback was answered 503 got the 500 of the outer catch block, each once
C34_Witness ==
    \E i, j \in 1..Len(hooks) :
       /\ hooks[i].cb = "no_response" /\ hooks[i].res.status = 200 /\ hooks[i].sent = 1
       /\ hooks[j].cb = "error_response" /\ hooks[j].res.status = 500 /\ hooks[j].sent = 1

\* the three places in the order of their precedence
Candidates(h) == << TopAddress(h), DataAddress(h), HeaderAddress(h) >>

\* the place of the first candidate of h that is present, 0 when none is
FirstPresent(h) ==
    IF \E n \in 1..3 : Present(Candidates(h)[n])
    THEN CHOOSE n \in 1..3 :
            Present(Candidates(h)[n]) /\ \A m \in 1..(n - 1) : ~Present(Candidates(h)[m])
    ELSE 0

\* the first present candidate of h is no address and a later one is
ShadowedAddress(h) ==
    /\ FirstPresent(h) # 0
    /\ ~BeginsWithHttp(Candidates(h)[FirstPresent(h)])
    /\ \E m \in (FirstPresent(h) + 1)..3 : BeginsWithHttp(Candidates(h)[m])

\* C35: when the first present (truthy) candidate is not a string beginning
\* with 'http' and a candidate of lower precedence is one, the handler
\* resolves the first, issues no callback POST and acknowledges the webhook
C35_FirstPresentWins ==
    \A i \in 1..Len(hooks) :
       ShadowedAddress(hooks[i])
          => /\ hooks[i].callbackUrl = Candidates(hooks[i])[FirstPresent(hooks[i])]
             /\ PostsOf(i) = {}
             /\ hooks[i].cb = "invalid"
             /\ hooks[i].pc = "done"

\* a webhook with the number 8080 at the top level and one with an ftp
\* address inside its data, each with a valid address in the header
C35_Witness ==
    \E i, j \in 1..Len(hooks) :
       /\ TopAddress(hooks[i]) = Num("8080")
       /\ DataAddress(hooks[j]) = Str("ftp://mr/callback")
       /\ HeaderAddress(hooks[i]) = HeaderUrl /\ HeaderAddress(hooks[j]) = HeaderUrl
       /\ ShadowedAddress(hooks[i]) /\ ShadowedAddress(hooks[j])
       /\ hooks[i].callbackUrl = Num("8080")
       /\ hooks[j].callbackUrl = Str("ftp://mr/callback")
       /\ posts = << >>

\* the two places of a webhook's body that can hold the answer
EventLocation(h) == FieldOf(FieldOf(h.req.body, "ai_response"), "data")
DataLocation(h) == FieldOf(h.req.body, "data")

\* the webhook carries an object at both places
CarriesBoth(h) ==
    /\ EventLocation(h).t = "object"
    /\ DataLocation(h).t = "object"

\* the response of record r is the object loc, or the text of its first choice
RecordFrom(r, loc) ==
    \/ r.response = loc
    \/ FirstChoiceContent(loc) # Undef /\ r.response = FirstChoiceContent(loc)

\* the payload's data has every field of the object loc, the identifiers aside
PayloadFrom(payload, loc) ==
    \A n \in 1..Len(loc.o) :
       loc.o[n][1] \notin {"id", "conversation_id"}
          => FieldOf(FieldOf(payload, "data"), loc.o[n][1]) = loc.o[n][2]

\* C36: for a webhook that carries both ai_response.data and data and gets a
\* callback POST, one of the two places is the source of both the record's
\* response and the payload's data, whatever the type
C36_SameLocation ==
    \A n \in 1..Len(posts) :
       LET h == hooks[posts[n].hook]
       IN  CarriesBoth(h)
              => \E loc \in {EventLocation(h), DataLocation(h)} :
                    /\ \A r \in HookRecords(h) : RecordFrom(r, loc)
                    /\ PayloadFrom(posts[n].payload, loc)

\* the webhooks received before this step for the channel_id c
EarlierHooks(c) == { j \in 1..Len(hooks) : HookChannel(hooks[j]) = c }

\* what C37 requires of every step of the variant server
C37_Step ==
    /\ \A i \in 1..Len(hooks') :
          (hooks'[i].res.status = 500 /\ (i > Len(hooks) \/ hooks[i].res.status # 500))
             => /\ conversations' = conversations
                /\ pendingRequests' = pendingRequests
    /\ HookArrives =>
          LET h == hooks'[Len(hooks')]
              earlier == EarlierHooks(HookChannel(h))
          IN  (/\ earlier # {}
               /\ LET last == CHOOSE j \in earlier : \A k \in earlier : k <= j
                  IN  hooks[last].res.status = 500 /\ hooks[last].correlated)
                 => /\ h.correlated
                    /\ HookChannel(h) \in DOMAIN pendingRequests
                    /\ \A r \in AppendedRecords :
                          r.prompt = pendingRequests[HookChannel(h)].prompt

\* C37: in the variant server a webhook answered 500 leaves the
\* conversation logs and the correlation store as they were, and the next
\* webhook for the same channel_id finds the entry the failed one found
C37_FailureLeavesStores == [][C37_Step]_vars

\* a webhook for c1 whose answer was the number 7 matched an entry and was
\* answered 500; the next webhook for c1 matched the entry and its record has
\* the prompt of the /chat request
C37_Witness ==
    /\ Len(hooks) = 2
    /\ HookChannel(hooks[1]) = HookChannel(hooks[2])
    /\ hooks[1].correlated /\ hooks[1].res.status = 500
    /\ HookRecords(hooks[1]) = {}
    /\ hooks[2].correlated /\ hooks[2].res.status = 200
    /\ \E r \in HookRecords(hooks[2]) : r.prompt = Str("hi")
    /\ HookChannel(hooks[2]) \notin DOMAIN pendingRequests

\* the channel ids of the messages shown
ShownChannels == { messages[n].channelId : n \in 1..Len(messages) } \ {Undef}

\* the answers and the assistant messages, answers and errors alike, that
\* responses with the channel_id c brought
AnswersFor(c) ==
    { n \in 1..Len(messages) :
        messages[n].role = "assistant" /\ ~messages[n].isError /\ messages[n].channelId = c }
AssistantMessagesFor(c) ==
    { n \in 1..Len(messages) : messages[n].role = "assistant" /\ messages[n].channelId = c }

\* the hook delivers a response in this step
UpdateArrives == Len(updates') = Len(updates) + 1 /\ updates'[Len(updates')] # Null

C38_Step ==
    UpdateArrives =>
       LET r == updates'[Len(updates')]
           c == FieldOf(r, "channel_id")
       IN  /\ (Displayable(r) /\ Truthy(c) /\ c \in processedChannels)
                 => messages' = messages /\ isLoading' = isLoading
           /\ (Displayable(r) /\ Truthy(c) /\ c \notin processedChannels)
                 => messages' = Append(messages, AssistantMessage(c))
                    /\ c \in processedChannels'
           /\ (FieldOf(r, "status") = Str("error") /\ ~Displayable(r))
                 => messages' = Append(messages, ErrorMessage(c))

C39_LoadingEnds ==
    \A i \in 1..MaxSends :
       (i <= Len(sends) /\ sends[i].loading /\ ~sends[i].issued) ~> ~isLoading

====
